---- MODULE Spec2Model ----
(***************************************************************************)
(* Model of homework_grader/detailed_analyzer.py: the rule-based notebook  *)
(* analysis of DetailedHomeworkAnalyzer.analyze_notebook.                  *)
(*                                                                         *)
(* Scores are Python floats in the source; here every score is an integer  *)
(* number of thousandths of a point (2 points = 2000, 12.5 = 12500), which *)
(* represents every tier value of the source exactly.                      *)
(*                                                                         *)
(* Text is modelled as a sequence of tokens.  A code cell's source is a    *)
(* sequence of R lines (Snippet), a markdown cell's source a sequence of   *)
(* structural tokens (heading, blank line, bold marker, newline) and       *)
(* phrases (Phrase).  The tables record, for every line and phrase, which  *)
(* of the analyzer's search terms occur in it as substrings; the           *)
(* analyzer's loops, conditions and regular expressions are modelled over  *)
(* these token sequences.                                                  *)
(***************************************************************************)
EXTENDS Integers, Sequences, FiniteSets, TLC

VARIABLES
  nb,                 \* the cells of the notebook document at notebook_path
  pc,                 \* the position of analyze_notebook
  executed_nb,        \* the cells returned by _execute_notebook_safely
  code_cells,         \* the list built at lines 75-83
  markdown_cells,     \* the list built at lines 84-85
  question_responses, \* the dictionary returned by _extract_question_responses
  analysis,           \* the analysis dictionary; the returned value at "returned"
  exc,                \* whether, and where, an exception reached the except branch
  execution,          \* how _execute_notebook_safely ended
  parsed,             \* what parse_old_feedback_format made of the formatted result
  report,             \* what a call of PDFReportGenerator.generate_report did
  files,              \* the data files on disk: the project's and the notebook directory's
  handed,             \* the results the two report entry points hand to the renderer
  view                \* the View Results page: session flag, submissions, screen

vars == <<nb, pc, executed_nb, code_cells, markdown_cells, question_responses,
          analysis, exc, execution, parsed, report, files, handed, view>>

(***************************************************************************)
(* Bound of the model: the number of cells of a notebook.                  *)
(***************************************************************************)
MaxCells == 2

(* Python's None for an execution_count (a notebook stores null or a      *)
(* non-negative integer).                                                  *)
None == -1

(***************************************************************************)
(* Input vocabulary: R lines of a code cell.  has = the patterns of the    *)
(* analyzer that occur in the line ("lib_tidyverse" and "lib_readxl" stand *)
(* for a match of the library\s*\(\s*pkg\s*\) regular expressions).        *)
(***************************************************************************)
Snippet ==
  [ getwd     |-> {"getwd()", "getwd("},
    setwd     |-> {"getwd()", "getwd("},
    tidyverse |-> {"lib_tidyverse"},
    readxl    |-> {"lib_readxl"},
    csv       |-> {"sales_df", "read_csv", "sales_data.csv"},
    csv_bad   |-> {"sales_df", "read_csv"},
    ratings   |-> {"ratings_df", "read_excel"},
    comments  |-> {"comments_df", "read_excel"},
    head      |-> {"head(", "sales_df"},
    str       |-> {"str(", "ratings_df"},
    summary   |-> {"summary(", "comments_df"},
    assign    |-> {} ]

(* `pattern in cell['source']` *)
SourceHas(source, pattern) ==
  \E i \in 1..Len(source) : pattern \in Snippet[source[i]]

(***************************************************************************)
(* Input vocabulary: stderr texts.  has = the (lower-cased) search terms   *)
(* of _detect_code_errors found in text.lower(); conflicts = the           *)
(* case-sensitive test of line 1124.                                       *)
(***************************************************************************)
Stderr ==
  [ obj  |-> [text |-> "Error: object 'sales_df' not found\n",
              stripped |-> "Error: object 'sales_df' not found",
              conflicts |-> FALSE,
              has |-> {"object", "not found", "error"}],
    conf |-> [text |-> "-- Conflicts -- tidyverse_conflicts() --\nx dplyr::filter() masks stats::filter()\n",
              stripped |-> "-- Conflicts -- tidyverse_conflicts() --\nx dplyr::filter() masks stats::filter()",
              conflicts |-> TRUE,
              has |-> {"conflicts"}],
    conf_obj |-> [text |-> "-- Conflicts -- tidyverse_conflicts() --\nx dplyr::filter() masks stats::filter()\nError: object 'sales_df' not found\n",
              stripped |-> "-- Conflicts -- tidyverse_conflicts() --\nx dplyr::filter() masks stats::filter()\nError: object 'sales_df' not found",
              conflicts |-> TRUE,
              has |-> {"conflicts", "object", "not found", "error"}],
    warn |-> [text |-> "Warning: package was built under R version 4.3.3\n",
              stripped |-> "Warning: package was built under R version 4.3.3",
              conflicts |-> FALSE,
              has |-> {"warning:"}],
    eval |-> [text |-> "Error in eval(expr): bad input\n",
              stripped |-> "Error in eval(expr): bad input",
              conflicts |-> FALSE,
              has |-> {"error"}],
    mask |-> [text |-> "The following objects are masked from 'package:stats': filter, lag\n",
              stripped |-> "The following objects are masked from 'package:stats': filter, lag",
              conflicts |-> FALSE,
              has |-> {"object"}] ]

(***************************************************************************)
(* Output records of a code cell.                                          *)
(***************************************************************************)
ResultOut == [output_type |-> "execute_result", name |-> "", ename |-> "", evalue |-> "", text |-> ""]
ErrorOut(ename, evalue) ==
  [output_type |-> "error", name |-> "", ename |-> ename, evalue |-> evalue, text |-> ""]
StderrOut(t) == [output_type |-> "stream", name |-> "stderr", ename |-> "", evalue |-> "", text |-> t]
StdoutOut == [output_type |-> "stream", name |-> "stdout", ename |-> "", evalue |-> "", text |-> ""]

CodeCell(source, outputs, ec) ==
  [cell_type |-> "code", source |-> source, outputs |-> outputs,
   outputs_is_none |-> FALSE, execution_count |-> ec]

(* a code cell whose "outputs" entry is null in the notebook document *)
NullOutputsCell(source) ==
  [cell_type |-> "code", source |-> source, outputs |-> <<>>,
   outputs_is_none |-> TRUE, execution_count |-> None]

MarkdownCell(source) ==
  [cell_type |-> "markdown", source |-> source, outputs |-> <<>>,
   outputs_is_none |-> FALSE, execution_count |-> None]

AllCode == <<"getwd", "tidyverse", "readxl", "csv", "ratings", "comments", "head", "str", "summary">>
NoReadxl == <<"getwd", "tidyverse", "csv", "ratings", "comments", "head", "str", "summary">>

CodePool ==
  { CodeCell(<<"getwd">>, <<ResultOut>>, 1),
    CodeCell(<<"getwd">>, <<>>, None),
    CodeCell(<<"setwd">>, <<>>, 1),
    CodeCell(<<"tidyverse">>, <<StderrOut("conf"), StderrOut("conf_obj")>>, 1),
    CodeCell(<<"tidyverse">>, <<StderrOut("mask")>>, 2),
    CodeCell(<<"readxl">>, <<>>, 2),
    CodeCell(<<"readxl">>, <<ErrorOut("Error", "there is no package called readxl")>>, 2),
    CodeCell(<<"tidyverse", "readxl">>, <<>>, None),
    CodeCell(AllCode, <<ResultOut>>, 1),
    CodeCell(NoReadxl, <<StdoutOut>>, 1),
    CodeCell(AllCode, <<>>, 3),
    CodeCell(<<"csv_bad", "head">>, <<StderrOut("obj")>>, 2),
    CodeCell(<<"str", "summary">>, <<StderrOut("obj"), StderrOut("eval")>>, 3),
    CodeCell(<<"ratings">>, <<ErrorOut("Error", "path does not exist: data/sales.csv"), StderrOut("warn")>>, 1),
    CodeCell(<<"comments">>, <<ErrorOut("Error", "path does not exist: data/sales.csv")>>, 4),
    NullOutputsCell(<<"assign">>),
    NullOutputsCell(<<"tidyverse">>) }

(***************************************************************************)
(* Sequences of at most n elements of S.                                   *)
(***************************************************************************)
SeqUpTo(S, n) == UNION { [1..k -> S] : k \in 0..n }

(***************************************************************************)
(* Helpers on sequences and dictionaries.                                  *)
(***************************************************************************)
InSeq(x, s) == \E i \in 1..Len(s) : s[i] = x

EmptyDict == [k \in {} |-> 0]

(* d[k] = v on a Python dict *)
Put(d, k, v) == [x \in (DOMAIN d) \cup {k} |-> IF x = k THEN v ELSE d[x]]

(* dict.get(key, default) *)
Get(d, k, default) == IF k \in DOMAIN d THEN d[k] ELSE default

Min(a, b) == IF a <= b THEN a ELSE b

(* one entry of detailed_feedback: the label of the line and the score and *)
(* maximum it prints                                                        *)
FB(label, score, max) == [label |-> label, score |-> score, max |-> max]

(***************************************************************************)
(* required_elements: the configuration table of __init__ (points).        *)
(***************************************************************************)
required_elements ==
  [ working_directory    |-> 2000,
    package_loading      |-> 4000,
    csv_import           |-> 5000,
    excel_import         |-> 6000,
    data_inspection      |-> 8000,
    reflection_questions |-> 12500 ]

max_score == 37500

EmptyAssessment ==
  [grade_level |-> "", opening |-> "", recommendations |-> <<>>, closing |-> ""]

(* the dictionary built at lines 61-72 *)
FreshAnalysis ==
  [ total_score |-> 0,
    max_score |-> max_score,
    detailed_feedback |-> <<>>,
    element_scores |-> EmptyDict,
    missing_elements |-> <<>>,
    code_issues |-> <<>>,
    question_analysis |-> EmptyDict,
    overall_assessment |-> EmptyAssessment,
    tidyverse_conflicts_info |-> FALSE ]

(* the dictionary returned by the except branch, lines 99-109 *)
ErrorResult ==
  [ total_score |-> 0,
    max_score |-> max_score,
    detailed_feedback |-> <<FB("Error analyzing notebook", 0, 0)>>,
    element_scores |-> EmptyDict,
    missing_elements |-> <<"All elements - notebook could not be analyzed">>,
    code_issues |-> <<"Notebook analysis failed">>,
    question_analysis |-> EmptyDict,
    overall_assessment |->
      [grade_level |-> "Notebook could not be analyzed due to technical issues.",
       opening |-> "", recommendations |-> <<>>, closing |-> ""],
    tidyverse_conflicts_info |-> FALSE ]

(***************************************************************************)
(* Execution evidence of one entry of code_cells.                          *)
(***************************************************************************)
(* cell['outputs'] and len(cell['outputs']) > 0 *)
HasOutputs(cell) == (~cell.outputs_is_none) /\ Len(cell.outputs) > 0

(* str(execution_count).isdigit() *)
IsDigit(ec) == ec >= 0

(* execution_count = cell.get('execution_count'): is not None and numeric *)
CountSaysExecuted(cell) ==
  LET execution_count == Get(cell, "execution_count", None)
  IN  execution_count # None /\ IsDigit(execution_count)

(* the "more flexible execution detection" of lines 159-165, 344-350 *)
WasExecuted(cell) == HasOutputs(cell) \/ CountSaysExecuted(cell)

(* indices of the cells whose source holds the pattern, and the first one *)
CellsWith(cells, pattern) ==
  { i \in 1..Len(cells) : SourceHas(cells[i].source, pattern) }

First(S) == CHOOSE i \in S : \A j \in S : i <= j

(***************************************************************************)
(* _analyze_working_directory                                              *)
(***************************************************************************)
GetwdCells(cells) == CellsWith(cells, "getwd()") \cup CellsWith(cells, "getwd(")

(* a variant that lets any cell holding getwd( supply the output *)
working_directory_score_any_cell(cells) ==
  LET found_getwd == GetwdCells(cells) # {}
      has_output == \E i \in GetwdCells(cells) : HasOutputs(cells[i])
      was_executed == has_output
                      \/ \E i \in GetwdCells(cells) : CountSaysExecuted(cells[i])
  IN  IF found_getwd /\ has_output /\ was_executed THEN 2000
      ELSE IF found_getwd /\ was_executed THEN 1500
      ELSE IF found_getwd THEN 500
      ELSE 0

(* a variant in which the last cell holding getwd( decides *)
working_directory_score_last_cell(cells) ==
  LET found_getwd == GetwdCells(cells) # {}
      cell == cells[CHOOSE i \in GetwdCells(cells) : \A j \in GetwdCells(cells) : j <= i]
      has_output == found_getwd /\ HasOutputs(cell)
      was_executed == found_getwd /\ (has_output \/ CountSaysExecuted(cell))
  IN  IF found_getwd /\ has_output /\ was_executed THEN 2000
      ELSE IF found_getwd /\ was_executed THEN 1500
      ELSE IF found_getwd THEN 500
      ELSE 0

working_directory_score(cells) ==
  LET found_getwd == GetwdCells(cells) # {}
      cell == cells[First(GetwdCells(cells))]
      has_output == found_getwd /\ HasOutputs(cell)
      was_executed == found_getwd /\ (has_output \/ CountSaysExecuted(cell))
  IN  IF found_getwd /\ has_output /\ was_executed THEN 2000
      ELSE IF found_getwd /\ was_executed THEN 1500
      ELSE IF found_getwd THEN 500
      ELSE 0

analyze_working_directory(cells, a) ==
  LET score == working_directory_score(cells)
      found_getwd == GetwdCells(cells) # {}
  IN  [a EXCEPT
         !.missing_elements =
            IF found_getwd THEN @ ELSE Append(@, "getwd() function call"),
         !.total_score = @ + score,
         !.element_scores = Put(@, "working_directory", score),
         !.detailed_feedback = Append(@, FB("Working Directory", score, 2000))]

(***************************************************************************)
(* _analyze_package_loading                                                *)
(***************************************************************************)
HasErrorOutput(cell) ==
  \E k \in 1..Len(cell.outputs) : cell.outputs[k].output_type = "error"

(* the status dictionary of one package after the loop of lines 156-187 *)
package_status(cells, pattern) ==
  LET holders == CellsWith(cells, pattern)
  IN  [found    |-> holders # {},
       executed |-> \E i \in holders : WasExecuted(cells[i]),
       error    |-> \E i \in holders : HasErrorOutput(cells[i])]

(* iterating the outputs of a matching cell whose outputs entry is None *)
(* raises TypeError (lines 174, 185)                                     *)
package_loading_raises(cells) ==
  \E i \in CellsWith(cells, "lib_tidyverse") \cup CellsWith(cells, "lib_readxl") :
     cells[i].outputs_is_none

(* the tier chain of lines 193-208 and 211-226 *)
package_score(status) ==
  IF status.executed /\ ~status.error THEN 2000
  ELSE IF status.found /\ ~status.executed THEN 1000
  ELSE IF status.executed /\ status.error THEN 500
  ELSE IF status.found THEN 500
  ELSE 0

package_issue(status) ==
  ~(status.executed /\ ~status.error) /\ ~(status.found /\ ~status.executed)
  /\ status.executed /\ status.error

(* a variant that lists a package whenever it is below its top tier *)
package_missing_below_top(status) ==
  ~(status.executed /\ ~status.error)

(* the else branch of lines 207-208 and 225-226 *)
package_missing(status) ==
  ~status.executed /\ ~status.found

analyze_package_loading(cells, a) ==
  LET tidyverse_status == package_status(cells, "lib_tidyverse")
      readxl_status == package_status(cells, "lib_readxl")
      score == package_score(tidyverse_status) + package_score(readxl_status)
      issues1 == IF package_issue(tidyverse_status)
                 THEN Append(a.code_issues, "tidyverse loading error") ELSE a.code_issues
      issues2 == IF package_issue(readxl_status)
                 THEN Append(issues1, "readxl loading error") ELSE issues1
      missing1 == IF package_missing(tidyverse_status)
                  THEN Append(a.missing_elements, "library(tidyverse)") ELSE a.missing_elements
      missing2 == IF package_missing(readxl_status)
                  THEN Append(missing1, "library(readxl)") ELSE missing1
  IN  [a EXCEPT
         !.code_issues = issues2,
         !.missing_elements = missing2,
         !.total_score = @ + score,
         !.element_scores = Put(@, "package_loading", score),
         !.detailed_feedback = Append(@, FB("Package Loading", score, 4000))]

(***************************************************************************)
(* _analyze_data_import                                                    *)
(***************************************************************************)
(* `pattern in all_code`, all_code being the sources joined by newlines:   *)
(* no pattern holds a newline, so it is in all_code iff it is in a cell    *)
AllCodeHas(cells, pattern) == CellsWith(cells, pattern) # {}

csv_import_score(cells) ==
  IF AllCodeHas(cells, "sales_df") /\ AllCodeHas(cells, "read_csv")
  THEN 3000 + (IF AllCodeHas(cells, "sales_data.csv") THEN 2000 ELSE 0)
  ELSE 0

ratings_found(cells) == AllCodeHas(cells, "ratings_df") /\ AllCodeHas(cells, "read_excel")
comments_found(cells) == AllCodeHas(cells, "comments_df") /\ AllCodeHas(cells, "read_excel")

excel_import_score(cells) ==
  (IF ratings_found(cells) THEN 3000 ELSE 0) + (IF comments_found(cells) THEN 3000 ELSE 0)

(* a variant that stores the CSV part only *)
data_import_entries_csv_only(es, csv_score, excel_score) ==
  Put(es, "data_import", csv_score)

(* the key under which lines 284-285 store the import score *)
data_import_entries(es, csv_score, excel_score) ==
  Put(es, "data_import", csv_score + excel_score)

analyze_data_import(cells, a) ==
  LET csv_score == csv_import_score(cells)
      excel_score == excel_import_score(cells)
      total_import_score == csv_score + excel_score
      missing1 == IF AllCodeHas(cells, "sales_df") /\ AllCodeHas(cells, "read_csv")
                  THEN a.missing_elements
                  ELSE Append(a.missing_elements, "sales_df data import")
      missing2 == IF ratings_found(cells) THEN missing1
                  ELSE Append(missing1, "ratings_df data import")
      missing3 == IF comments_found(cells) THEN missing2
                  ELSE Append(missing2, "comments_df data import")
  IN  [a EXCEPT
         !.missing_elements = missing3,
         !.total_score = @ + total_import_score,
         !.element_scores = data_import_entries(@, csv_score, excel_score),
         !.detailed_feedback = @ \o <<FB("CSV Import", csv_score, 5000),
                                      FB("Excel Import", excel_score, 6000)>>]

(***************************************************************************)
(* _detect_code_errors                                                     *)
(***************************************************************************)
error_terms == {"does not exist", "path does not exist", "object", "not found",
                "could not find function", "no such file"}

skip_terms == {"warning:", "note:", "info:", "deprecated", "package startup", "conflicts"}

(* the test of lines 1135 and 1142 before a stderr text is appended *)
stderr_is_new(stderr_text, code_issues) == ~InSeq(stderr_text, code_issues)

(* a variant that looks for the error terms before the conflicts notice *)
detect_output_errors_first(a, output) ==
  IF output.output_type = "error"
  THEN LET error_msg == "ERROR: " \o output.ename \o ": " \o output.evalue
       IN  IF ~InSeq(error_msg, a.code_issues)
           THEN [a EXCEPT !.code_issues = Append(@, error_msg)]
           ELSE a
  ELSE IF output.output_type = "stream" /\ output.name = "stderr"
  THEN LET t == Stderr[output.text]
           stderr_text == t.text
       IN  IF t.has \cap error_terms # {}
           THEN IF stderr_is_new(stderr_text, a.code_issues)
                THEN [a EXCEPT !.code_issues = Append(@, "ERROR: " \o t.stripped)]
                ELSE a
           ELSE IF t.conflicts
           THEN IF ~a.tidyverse_conflicts_info
                THEN [a EXCEPT !.tidyverse_conflicts_info = TRUE,
                               !.detailed_feedback =
                                  Append(@, FB("Tidyverse conflicts detected", 0, 0))]
                ELSE a
           ELSE IF t.has \cap skip_terms = {}
           THEN IF "error" \in t.has /\ stderr_is_new(stderr_text, a.code_issues)
                THEN [a EXCEPT !.code_issues = Append(@, "ERROR: " \o t.stripped)]
                ELSE a
           ELSE a
  ELSE a

(* one iteration of the loop over a cell's outputs, lines 1110-1143 *)
detect_output(a, output) ==
  IF output.output_type = "error"
  THEN LET error_msg == "ERROR: " \o output.ename \o ": " \o output.evalue
       IN  IF ~InSeq(error_msg, a.code_issues)
           THEN [a EXCEPT !.code_issues = Append(@, error_msg)]
           ELSE a
  ELSE IF output.output_type = "stream" /\ output.name = "stderr"
  THEN LET t == Stderr[output.text]
           stderr_text == t.text
       IN  IF t.conflicts
           THEN IF ~a.tidyverse_conflicts_info
                THEN [a EXCEPT !.tidyverse_conflicts_info = TRUE,
                               !.detailed_feedback =
                                  Append(@, FB("Tidyverse conflicts detected", 0, 0))]
                ELSE a
           ELSE IF t.has \cap error_terms # {}
           THEN IF stderr_is_new(stderr_text, a.code_issues)
                THEN [a EXCEPT !.code_issues = Append(@, "ERROR: " \o t.stripped)]
                ELSE a
           ELSE IF t.has \cap skip_terms = {}
           THEN IF "error" \in t.has /\ stderr_is_new(stderr_text, a.code_issues)
                THEN [a EXCEPT !.code_issues = Append(@, "ERROR: " \o t.stripped)]
                ELSE a
           ELSE a
  ELSE a

RECURSIVE detect_outputs(_, _)
detect_outputs(a, outputs) ==
  IF outputs = <<>> THEN a
  ELSE detect_outputs(detect_output(a, Head(outputs)), Tail(outputs))

RECURSIVE detect_code_errors(_, _)
detect_code_errors(cells, a) ==
  IF cells = <<>> THEN a
  ELSE detect_code_errors(Tail(cells), detect_outputs(a, Head(cells).outputs))

(* iterating cell['outputs'] when it is None raises TypeError (line 1109) *)
detect_code_errors_raises(cells) ==
  \E i \in 1..Len(cells) : cells[i].outputs_is_none

(***************************************************************************)
(* _analyze_data_inspection                                                *)
(***************************************************************************)
functions_to_check == <<"head(", "str(", "summary(">>
datasets_to_check == <<"sales_df", "ratings_df", "comments_df">>

func_name(func) ==
  IF func = "head(" THEN "head" ELSE IF func = "str(" THEN "str" ELSE "summary"

(* lines 306-322: only the first cell holding func is looked at *)
func_found(cells, func) == CellsWith(cells, func) # {}
func_executed(cells, func) ==
  func_found(cells, func) /\ WasExecuted(cells[First(CellsWith(cells, func))])

function_score(cells, func) ==
  IF func_executed(cells, func) THEN 2000
  ELSE IF func_found(cells, func) THEN 500
  ELSE 0

(* lines 341-356 *)
dataset_cells(cells, dataset) ==
  { i \in CellsWith(cells, dataset) :
      \E f \in 1..Len(functions_to_check) :
         SourceHas(cells[i].source, functions_to_check[f]) }

dataset_score(cells, dataset) ==
  IF \E i \in dataset_cells(cells, dataset) : WasExecuted(cells[i]) THEN 1000
  ELSE IF dataset_cells(cells, dataset) # {} THEN 300
  ELSE 0

(* the loop of lines 306-332 *)
RECURSIVE function_total(_, _)
function_total(cells, funcs) ==
  IF funcs = <<>> THEN 0
  ELSE function_score(cells, Head(funcs)) + function_total(cells, Tail(funcs))

(* the loop of lines 335-366 *)
RECURSIVE dataset_total(_, _)
dataset_total(cells, datasets) ==
  IF datasets = <<>> THEN 0
  ELSE dataset_score(cells, Head(datasets)) + dataset_total(cells, Tail(datasets))

(* a variant without the cap *)
inspection_cap_missing(score) == score

(* line 369 *)
inspection_cap(score) == Min(8000, score)

data_inspection_score(cells) ==
  inspection_cap(function_total(cells, functions_to_check)
                 + dataset_total(cells, datasets_to_check))

RECURSIVE missing_functions(_, _, _)
missing_functions(cells, funcs, missing) ==
  IF funcs = <<>> THEN missing
  ELSE missing_functions(cells, Tail(funcs),
         IF func_found(cells, Head(funcs)) THEN missing
         ELSE Append(missing, func_name(Head(funcs)) \o "() function"))

analyze_data_inspection(cells, a0) ==
  LET a == detect_code_errors(cells, a0)
      score == data_inspection_score(cells)
  IN  [a EXCEPT
         !.missing_elements = missing_functions(cells, functions_to_check, @),
         !.total_score = @ + score,
         !.element_scores = Put(@, "data_inspection", score),
         !.detailed_feedback = Append(@, FB("Data Inspection", score, 8000))]

(***************************************************************************)
(* Input vocabulary: markdown text.  A markdown source is a sequence of    *)
(* tokens: "H" a heading marker at the start of a line ("## ", with the    *)
(* line break before it), "PARA" a blank line ("\n\n"), "BOLD" a bold      *)
(* marker ("**"), "NL" a single line break, and phrases.  Two adjacent     *)
(* phrases are separated by one space.  For every phrase: its length in    *)
(* characters, its number of whitespace-separated words, the answer        *)
(* introductions it matches (marks: "answer" = answer[:\s]+, "response" =  *)
(* response[:\s]+, "your answer" = your answer[:\s]+, "bracket" = \[.*?\], *)
(* "question" = question \d+|analysis|assessment) and the search terms of  *)
(* the analyzer that occur in its lower-cased text (has).                  *)
(*   T1..T3 question titles, P1..P3 question prompts, ANS "Your Answer:",  *)
(*   BRK "[Write your response here]", HERE "here]", DASH "-",             *)
(*   R1..R3 full answers, R90 an answer on the Date and Amount columns    *)
(*   that calls them suitable and names no business use,                   *)
(*   R15 "Dates are text.", R16 "Dates are texts.",                        *)
(*   RMID "The date values look appropriate.", RTODO "TODO: describe ..."  *)
(***************************************************************************)
Phrase ==
  [ T1 |-> [chars |-> 31, words |-> 5,
       marks |-> {"question"},
       has |-> {"analysis", "data type", "na"}],
    T2 |-> [chars |-> 35, words |-> 5,
       marks |-> {"question"},
       has |-> {"data quality", "quality"}],
    T3 |-> [chars |-> 30, words |-> 4,
       marks |-> {"question"},
       has |-> {"analysis", "analysis readiness", "na"}],
    P1 |-> [chars |-> 67, words |-> 10,
       marks |-> {},
       has |-> {"amount", "analytics", "appropriate", "business", "business analytics", "column", "date", "na", "the"}],
    P1B |-> [chars |-> 45, words |-> 7,
       marks |-> {},
       has |-> {"amount", "appropriate", "column", "date"}],
    P2 |-> [chars |-> 46, words |-> 8,
       marks |-> {},
       has |-> {"missing", "pattern", "unusual"}],
    P3 |-> [chars |-> 55, words |-> 10,
       marks |-> {},
       has |-> {"dataset", "most ready", "prepare", "ready"}],
    ANS |-> [chars |-> 12, words |-> 2,
       marks |-> {"answer", "your answer"},
       has |-> {}],
    BRK |-> [chars |-> 26, words |-> 4,
       marks |-> {"bracket", "response"},
       has |-> {"[write", "[write your response here]", "write your", "write your response", "write your response here"}],
    HERE |-> [chars |-> 5, words |-> 1,
       marks |-> {},
       has |-> {}],
    DASH |-> [chars |-> 1, words |-> 1,
       marks |-> {},
       has |-> {}],
    R1 |-> [chars |-> 267, words |-> 42,
       marks |-> {},
       has |-> {"amount", "analytics", "appropriate", "because", "business", "business analytics", "column", "date", "first", "na", "number", "numeric", "sales", "the"}],
    R2 |-> [chars |-> 264, words |-> 43,
       marks |-> {},
       has |-> {"affect", "because", "duplicate", "impact", "missing", "pattern", "problem", "rating", "the", "these", "unusual"}],
    R3 |-> [chars |-> 265, words |-> 44,
       marks |-> {},
       has |-> {"because", "comment", "compare", "consistent", "dataset", "first", "fix", "most ready", "need to", "prepare", "rating", "ready", "sales", "spelling", "the", "then", "transform"}],
    R15 |-> [chars |-> 15, words |-> 3,
       marks |-> {},
       has |-> {"date"}],
    R90 |-> [chars |-> 327, words |-> 59,
       marks |-> {},
       has |-> {"amount", "column", "date", "first", "i think", "number", "numeric", "sales", "seems", "should", "suitable", "the"}],
    R16 |-> [chars |-> 16, words |-> 3,
       marks |-> {},
       has |-> {"date"}],
    RMID |-> [chars |-> 33, words |-> 5,
       marks |-> {},
       has |-> {"appropriate", "date", "the"}],
    RADD |-> [chars |-> 97, words |-> 16,
       marks |-> {"question"},
       has |-> {"add your", "amount", "analysis", "analytics", "because", "business", "business analytics", "column", "date", "na", "report", "the"}],
    YAH |-> [chars |-> 18, words |-> 3,
       marks |-> {"answer", "bracket", "your answer"},
       has |-> {"[your", "[your answer here]", "your answer here"}],
    RTODO |-> [chars |-> 66, words |-> 10,
       marks |-> {},
       has |-> {"amount", "appropriate", "column", "date", "the", "todo"}] ]

Structural == {"H", "PARA", "BOLD", "NL"}
IsPhrase(t) == t \notin Structural

(* `term in text.lower()` *)
TextHas(text, term) ==
  \E i \in 1..Len(text) : IsPhrase(text[i]) /\ term \in Phrase[text[i]].has

TextHasAny(text, terms) == \E t \in terms : TextHas(text, t)

(* sum(1 for term in terms if term in text_lower) *)
CountIn(text, terms) == Cardinality({ t \in terms : TextHas(text, t) })

(* text.strip() *)
RECURSIVE LStrip(_)
LStrip(text) ==
  IF text # <<>> /\ Head(text) \in {"NL", "PARA"} THEN LStrip(Tail(text)) ELSE text

RECURSIVE RStrip(_)
RStrip(text) ==
  IF text # <<>> /\ text[Len(text)] \in {"NL", "PARA"}
  THEN RStrip(SubSeq(text, 1, Len(text) - 1)) ELSE text

Strip(text) == RStrip(LStrip(text))

TokLen(t) ==
  IF t = "NL" THEN 1
  ELSE IF t \in {"BOLD", "PARA"} THEN 2
  ELSE IF t = "H" THEN 3
  ELSE Phrase[t].chars

(* len(text) *)
RECURSIVE TextLen(_)
TextLen(text) ==
  IF text = <<>> THEN 0
  ELSE TokLen(text[1])
       + (IF Len(text) > 1 /\ IsPhrase(text[1]) /\ IsPhrase(text[2]) THEN 1 ELSE 0)
       + TextLen(Tail(text))

(* len(text.split()) *)
RECURSIVE WordCount(_)
WordCount(text) ==
  IF text = <<>> THEN 0
  ELSE (IF IsPhrase(text[1]) THEN Phrase[text[1]].words ELSE 0) + WordCount(Tail(text))

(* '\n'.join(markdown_cells); a heading token carries its own line break *)
RECURSIVE JoinCells(_)
JoinCells(cells) ==
  IF cells = <<>> THEN <<>>
  ELSE IF Len(cells) = 1 THEN cells[1]
  ELSE LET rest == JoinCells(Tail(cells))
       IN  IF rest # <<>> /\ Head(rest) = "H" THEN cells[1] \o rest
           ELSE cells[1] \o <<"NL">> \o rest

(* re.split(r'(?:^|\n)#{1,4}\s+', markdown_text): the text before the first *)
(* heading and the text after every heading                                 *)
RECURSIVE SplitSections(_, _, _)
SplitSections(text, cur, acc) ==
  IF text = <<>> THEN Append(acc, cur)
  ELSE IF Head(text) = "H" THEN SplitSections(Tail(text), <<>>, Append(acc, cur))
  ELSE SplitSections(Tail(text), Append(cur, Head(text)), acc)

Sections(markdown_text) == SplitSections(markdown_text, <<>>, <<>>)

(***************************************************************************)
(* _extract_question_responses                                             *)
(***************************************************************************)
question_keys == <<"data_types", "data_quality", "analysis_readiness">>

question_indicators ==
  [ data_types |-> {"data type", "date", "amount", "column", "appropriate",
                    "business analytics"},
    data_quality |-> {"data quality", "quality", "missing", "issue", "problem",
                      "unusual", "pattern"},
    analysis_readiness |-> {"analysis readiness", "ready", "preprocessing", "prepare",
                            "dataset", "most ready"} ]

(* the answer introductions of lines 511-517, in order *)
answer_patterns == <<"answer", "response", "your answer", "bracket", "question">>

MarkAt(section, mark) ==
  { i \in 1..Len(section) : IsPhrase(section[i]) /\ mark \in Phrase[section[i]].marks }

(* what is left of a phrase after the introduction matched inside it:     *)
(* "response " matches inside "[Write your response here]" and "answer "   *)
(* inside "[Your answer here]", both leave "here]"; every other            *)
(* introduction ends its phrase                                            *)
AfterMark(tok, mark) ==
  IF \/ tok = "BRK" /\ mark = "response"
     \/ tok = "YAH" /\ mark \in {"answer", "your answer"}
  THEN <<"HERE">> ELSE <<>>

(* (.*?)(?=\n\n|\*\*|###|$): the text up to the next blank line or bold    *)
(* marker, or to the end of the section                                    *)
RECURSIVE UpToStop(_)
UpToStop(text) ==
  IF text = <<>> \/ Head(text) \in {"PARA", "BOLD"} THEN <<>>
  ELSE <<Head(text)>> \o UpToStop(Tail(text))

From(text, i) == SubSeq(text, i, Len(text))

(* re.search(pattern, section, IGNORECASE | DOTALL) finds a match *)
PatternMatches(section, mark) ==
  /\ MarkAt(section, mark) # {}
  /\ mark = "question" =>
       \E j \in 1..Len(section) : j > First(MarkAt(section, mark)) /\ section[j] = "PARA"

(* match.group(1) *)
PatternGroup(section, mark) ==
  LET i == First(MarkAt(section, mark))
  IN  IF mark = "question"
      THEN LET j == First({ k \in 1..Len(section) : k > i /\ section[k] = "PARA" })
           IN  UpToStop(From(section, j + 1))
      ELSE AfterMark(section[i], mark) \o UpToStop(From(section, i + 1))

(* re.sub(r'^\[.*?\]', '', response).strip() *)
DropBracket(response) ==
  IF response # <<>> /\ response[1] = "BRK" THEN Strip(Tail(response)) ELSE response

(* re.sub(r'^[:\-\s]+', '', response).strip() *)
RECURSIVE DropPunct(_)
DropPunct(response) ==
  IF response # <<>> /\ response[1] \in {"DASH", "NL"} THEN DropPunct(Tail(response))
  ELSE Strip(response)

(* lines 522-525 *)
CleanResponse(group) == DropPunct(DropBracket(Strip(group)))

placeholders ==
  {"write your response here", "your answer here", "add your", "todo",
   "write your", "insert your", "fill in", "complete this",
   "[write", "[your", "[add", "[insert"}

is_placeholder_text(text) == TextHasAny(text, placeholders)

(* the length a candidate answer must exceed, line 527 *)
MinResponseLen == 15

(* line 527 *)
accepts_response(response) ==
  TextLen(response) > MinResponseLen /\ ~is_placeholder_text(response)

(* the patterns of a section whose cleaned group is accepted *)
AcceptedPatterns(section) ==
  { k \in 1..Len(answer_patterns) :
      /\ PatternMatches(section, answer_patterns[k])
      /\ accepts_response(CleanResponse(PatternGroup(section, answer_patterns[k]))) }

(* the values `response` takes at line 525 for a question key: the answers *)
(* found, by any pattern, in the sections that hold at least two of the    *)
(* question's indicators, before the filter of line 527                    *)
answer_candidates(markdown_text, q_key) ==
  LET sections == Sections(markdown_text)
      matches == { x \in (1..Len(sections)) \X (1..Len(answer_patterns)) :
                     /\ CountIn(sections[x[1]], question_indicators[q_key]) >= 2
                     /\ PatternMatches(sections[x[1]], answer_patterns[x[2]]) }
  IN  { CleanResponse(PatternGroup(sections[x[1]], answer_patterns[x[2]])) : x \in matches }

(* a variant in which a later section replaces the response of a key *)
extract_key_replacing(responses, section, q_key) ==
  IF CountIn(section, question_indicators[q_key]) >= 2 /\ AcceptedPatterns(section) # {}
  THEN Put(responses, q_key,
           CleanResponse(PatternGroup(section, answer_patterns[First(AcceptedPatterns(section))])))
  ELSE responses

(* lines 502-529 for one section and one question key *)
extract_key(responses, section, q_key) ==
  IF q_key \in DOMAIN responses THEN responses
  ELSE IF CountIn(section, question_indicators[q_key]) >= 2 /\ AcceptedPatterns(section) # {}
  THEN Put(responses, q_key,
           CleanResponse(PatternGroup(section, answer_patterns[First(AcceptedPatterns(section))])))
  ELSE responses

RECURSIVE extract_keys(_, _, _)
extract_keys(responses, section, keys) ==
  IF keys = <<>> THEN responses
  ELSE extract_keys(extract_key(responses, section, Head(keys)), section, Tail(keys))

RECURSIVE extract_sections(_, _)
extract_sections(responses, sections) ==
  IF sections = <<>> THEN responses
  ELSE extract_sections(extract_keys(responses, Head(sections), question_keys),
                        Tail(sections))

(***************************************************************************)
(* _fallback_question_extraction                                           *)
(***************************************************************************)
(* the closing marker of \*\*.*?\*\* : the next bold marker on the line    *)
ClosingBold(text) ==
  { j \in 2..Len(text) :
      /\ text[j] = "BOLD"
      /\ \A k \in 2..(j - 1) : text[k] \notin {"BOLD", "NL", "PARA", "H"} }

(* re.split(r'\n\s*\n|\*\*.*?\*\*|#{1,4}', markdown_text) *)
RECURSIVE SplitBlocks(_, _, _)
SplitBlocks(text, cur, acc) ==
  IF text = <<>> THEN Append(acc, cur)
  ELSE IF Head(text) \in {"PARA", "H"}
  THEN SplitBlocks(Tail(text), <<>>, Append(acc, cur))
  ELSE IF Head(text) = "BOLD" /\ ClosingBold(text) # {}
  THEN SplitBlocks(From(text, First(ClosingBold(text)) + 1), <<>>, Append(acc, cur))
  ELSE SplitBlocks(Tail(text), Append(cur, Head(text)), acc)

text_blocks(markdown_text) == SplitBlocks(markdown_text, <<>>, <<>>)

answer_indicators ==
  {"because", "since", "the", "this", "these", "i think", "i believe", "appears", "seems"}

(* lines 561-573 for one block and one question key *)
fallback_key(responses, block, q_key) ==
  IF q_key \in DOMAIN responses THEN responses
  ELSE IF /\ CountIn(block, question_indicators[q_key]) >= 1
          /\ TextLen(block) > 30
          /\ TextHasAny(block, answer_indicators)
  THEN Put(responses, q_key, block)
  ELSE responses

RECURSIVE fallback_keys(_, _, _)
fallback_keys(responses, block, keys) ==
  IF keys = <<>> THEN responses
  ELSE fallback_keys(fallback_key(responses, block, Head(keys)), block, Tail(keys))

RECURSIVE fallback_blocks(_, _)
fallback_blocks(responses, blocks) ==
  IF blocks = <<>> THEN responses
  ELSE LET block == Strip(Head(blocks))
       IN  IF TextLen(block) < 20 \/ is_placeholder_text(block)
           THEN fallback_blocks(responses, Tail(blocks))
           ELSE fallback_blocks(fallback_keys(responses, block, question_keys), Tail(blocks))

fallback_question_extraction(markdown_text, responses) ==
  fallback_blocks(responses, text_blocks(markdown_text))

extract_question_responses(markdown_text) ==
  LET responses == extract_sections(EmptyDict, Sections(markdown_text))
  IN  IF Cardinality(DOMAIN responses) < 3
      THEN fallback_question_extraction(markdown_text, responses)
      ELSE responses

(***************************************************************************)
(* _analyze_single_question and the three question scorers.  Frac(m, p) is *)
(* max_points * 0.p: p hundredths of m.                                    *)
(***************************************************************************)
Frac(m, p) == (m * p) \div 100

(* the questions table of lines 393-415 *)
questions ==
  [ data_types |->
      [keywords |-> {"data type", "date", "amount", "character", "numeric", "integer",
                     "appropriate", "business", "analytics"},
       title |-> "Data Types Analysis", points |-> 4000],
    data_quality |->
      [keywords |-> {"missing", "quality", "unusual", "pattern", "issue", "problem",
                     "clean", "null", "na"},
       title |-> "Data Quality Assessment", points |-> 4000],
    analysis_readiness |->
      [keywords |-> {"ready", "analysis", "preprocessing", "prepare", "clean", "dataset",
                     "transform"},
       title |-> "Analysis Readiness", points |-> 4500] ]

scorer_placeholders ==
  {"[write your response here]", "[your answer here]", "todo", "add your",
   "write your response"}

has_placeholder(response) == TextHasAny(response, scorer_placeholders)

(* the three parts of _analyze_data_types_response, lines 617-653 *)
data_types_parts(response, basic_keywords, max_points) ==
  LET mentions_date == TextHasAny(response, {"date", "datetime", "time"})
      mentions_amount ==
        TextHasAny(response, {"amount", "numeric", "number", "currency", "dollar"})
      discusses_appropriateness ==
        TextHasAny(response, {"appropriate", "suitable", "good", "bad", "better", "should"})
      mentions_business_context ==
        TextHasAny(response, {"business", "analytics", "analysis", "calculation", "report"})
      word_count == WordCount(response)
  IN  << IF mentions_date /\ mentions_amount THEN Frac(max_points, 40)
         ELSE IF mentions_date \/ mentions_amount THEN Frac(max_points, 25)
         ELSE IF basic_keywords >= 1 THEN Frac(max_points, 15)
         ELSE 0,
         IF discusses_appropriateness /\ mentions_business_context THEN Frac(max_points, 40)
         ELSE IF discusses_appropriateness THEN Frac(max_points, 30)
         ELSE IF mentions_business_context THEN Frac(max_points, 20)
         ELSE 0,
         IF word_count >= 40 THEN Frac(max_points, 20)
         ELSE IF word_count >= 20 THEN Frac(max_points, 15)
         ELSE IF word_count >= 10 THEN Frac(max_points, 10)
         ELSE 0 >>

(* the three parts of _analyze_data_quality_response, lines 690-721 *)
data_quality_parts(response, basic_keywords, max_points) ==
  LET mentions_missing == TextHasAny(response, {"missing", "null", "na", "blank", "empty"})
      mentions_patterns ==
        TextHasAny(response, {"pattern", "unusual", "strange", "consistent", "inconsistent"})
      mentions_specific_issues ==
        TextHasAny(response, {"duplicate", "outlier", "error", "format", "spelling"})
      discusses_impact ==
        TextHasAny(response, {"impact", "affect", "problem", "issue", "concern"})
      word_count == WordCount(response)
  IN  << IF mentions_missing /\ (mentions_patterns \/ mentions_specific_issues)
         THEN Frac(max_points, 50)
         ELSE IF mentions_missing \/ mentions_patterns \/ mentions_specific_issues
         THEN Frac(max_points, 35)
         ELSE IF basic_keywords >= 1 THEN Frac(max_points, 20)
         ELSE 0,
         IF discusses_impact THEN Frac(max_points, 30)
         ELSE IF TextHasAny(response, {"analysis", "problem", "issue", "affect"})
         THEN Frac(max_points, 20)
         ELSE 0,
         IF word_count >= 30 THEN Frac(max_points, 20)
         ELSE IF word_count >= 15 THEN Frac(max_points, 15)
         ELSE IF word_count >= 8 THEN Frac(max_points, 10)
         ELSE 0 >>

(* the three parts of _analyze_analysis_readiness_response, lines 759-793 *)
analysis_readiness_parts(response, basic_keywords, max_points) ==
  LET compares_datasets ==
        TextHasAny(response, {"compare", "versus", "vs", "between", "different"})
      mentions_preprocessing ==
        TextHasAny(response, {"clean", "prepare", "process", "transform", "fix"})
      provides_reasoning ==
        TextHasAny(response, {"because", "since", "due to", "reason", "therefore"})
      mentions_specific_steps ==
        TextHasAny(response, {"first", "next", "then", "step", "need to"})
      word_count == WordCount(response)
  IN  << IF compares_datasets /\ provides_reasoning THEN Frac(max_points, 45)
         ELSE IF compares_datasets THEN Frac(max_points, 30)
         ELSE IF TextHasAny(response, {"sales", "rating", "comment", "dataset"})
         THEN Frac(max_points, 20)
         ELSE 0,
         IF mentions_preprocessing /\ mentions_specific_steps THEN Frac(max_points, 35)
         ELSE IF mentions_preprocessing THEN Frac(max_points, 25)
         ELSE IF TextHasAny(response, {"clean", "fix", "prepare", "ready"})
         THEN Frac(max_points, 15)
         ELSE 0,
         IF word_count >= 40 THEN Frac(max_points, 20)
         ELSE IF word_count >= 20 THEN Frac(max_points, 15)
         ELSE IF word_count >= 10 THEN Frac(max_points, 10)
         ELSE 0 >>

(* the concept lists of the three scorers (lines 608-611, 681-684,         *)
(* 750-753): the keyword groups of each question                           *)
keyword_groups ==
  [ data_types |->
      { {"date", "datetime", "time"},
        {"amount", "numeric", "number", "currency", "dollar"},
        {"appropriate", "suitable", "good", "bad", "better", "should"},
        {"business", "analytics", "analysis", "calculation", "report"} },
    data_quality |->
      { {"missing", "null", "na", "blank", "empty"},
        {"pattern", "unusual", "strange", "consistent", "inconsistent"},
        {"duplicate", "outlier", "error", "format", "spelling"},
        {"impact", "affect", "problem", "issue", "concern"} },
    analysis_readiness |->
      { {"compare", "versus", "vs", "between", "different"},
        {"clean", "prepare", "process", "transform", "fix"},
        {"because", "since", "due to", "reason", "therefore"},
        {"first", "next", "then", "step", "need to"} } ]

(* The sums of three parts whose IEEE-754 double value, added in the order *)
(* of the source, is one unit in the last place below the exact sum:       *)
(* 1.6 + 1.2 + 0.8, 2.0 + 0.8 + 0.8 and 1.35 + 1.125 + 0.675.              *)
rounds_below == { <<1600, 1200, 800>>, <<2000, 800, 800>>, <<1350, 1125, 675>> }

(* a variant where the effort part is a fraction of the running score *)
Sum3_compounding(parts) ==
  parts[1] + parts[2] + ((parts[1] + parts[2]) * parts[3]) \div 1000

(* score += ... three times, from 0 *)
Sum3(parts) == parts[1] + parts[2] + parts[3]

(* score >= max_points * 0.p, evaluated on doubles *)
float_ge(parts, max_points, p) ==
  \/ Sum3(parts) > Frac(max_points, p)
  \/ Sum3(parts) = Frac(max_points, p) /\ parts \notin rounds_below

(* the quality assessment of lines 656-663, 724-731, 796-803 *)
quality_label(parts, max_points) ==
  IF float_ge(parts, max_points, 90) THEN "Excellent"
  ELSE IF float_ge(parts, max_points, 70) THEN "Good"
  ELSE IF float_ge(parts, max_points, 50) THEN "Satisfactory"
  ELSE "Needs Improvement"

question_parts(q_key, response, basic_keywords, max_points) ==
  IF q_key = "data_types" THEN data_types_parts(response, basic_keywords, max_points)
  ELSE IF q_key = "data_quality" THEN data_quality_parts(response, basic_keywords, max_points)
  ELSE analysis_readiness_parts(response, basic_keywords, max_points)

(* the value returned when the response holds placeholder text, line 592 *)
placeholder_result == [score |-> 500, quality |-> "Incomplete"]

(* a variant that scores the known questions before it looks for           *)
(* placeholder text                                                        *)
analyze_single_question_scored_first(q_key, response, q_info) ==
  LET basic_keywords == CountIn(response, q_info.keywords)
      parts == question_parts(q_key, response, basic_keywords, q_info.points)
  IN  IF q_key \in {"data_types", "data_quality", "analysis_readiness"}
      THEN [score |-> Min(Sum3(parts), q_info.points),
            quality |-> quality_label(parts, q_info.points)]
      ELSE IF has_placeholder(response) THEN placeholder_result
      ELSE [score |-> 0, quality |-> "Unknown"]

(* response_lower is response.lower(), as the caller passes it (line 426);  *)
(* the search terms of the phrase table are those found in the lower-cased *)
(* text                                                                    *)
analyze_single_question(q_key, response, q_info) ==
  LET basic_keywords == CountIn(response, q_info.keywords)
      parts == question_parts(q_key, response, basic_keywords, q_info.points)
  IN  IF has_placeholder(response) THEN placeholder_result
      ELSE IF q_key \in {"data_types", "data_quality", "analysis_readiness"}
      THEN [score |-> Min(Sum3(parts), q_info.points),
            quality |-> quality_label(parts, q_info.points)]
      ELSE [score |-> 0, quality |-> "Unknown"]

(***************************************************************************)
(* _analyze_reflection_questions                                           *)
(***************************************************************************)
(* a variant with the length test of the fallback extraction (line 568) *)
has_content_over_30(response) == response # <<>> /\ TextLen(Strip(response)) > 30

(* line 425: response and len(response.strip()) > 15 *)
has_content(response) == response # <<>> /\ TextLen(Strip(response)) > 15

(* a variant that grades the entry of a question without answer *)
missing_entry_graded(q_info) ==
  [score |-> 0, max_score |-> q_info.points, quality |-> "Needs Improvement"]

(* the entry stored for a question without answer, lines 456-462 *)
missing_entry(q_info) ==
  [score |-> 0, max_score |-> q_info.points, quality |-> "Missing"]

(* one iteration of the loop of lines 420-462 *)
reflect_question(a, responses, q_key) ==
  LET q_info == questions[q_key]
      response == Get(responses, q_key, <<>>)
      r == analyze_single_question(q_key, response, q_info)
  IN  IF has_content(response)
      THEN [a EXCEPT !.question_analysis =
              Put(@, q_key, [score |-> r.score, max_score |-> q_info.points,
                             quality |-> r.quality])]
      ELSE [a EXCEPT !.missing_elements = Append(@, q_info.title \o " response"),
                     !.question_analysis =
              Put(@, q_key, missing_entry(q_info))]

RECURSIVE reflect_questions(_, _, _)
reflect_questions(a, responses, keys) ==
  IF keys = <<>> THEN a
  ELSE reflect_questions(reflect_question(a, responses, Head(keys)), responses, Tail(keys))

RECURSIVE question_total(_, _)
question_total(qa, keys) ==
  IF keys = <<>> THEN 0 ELSE qa[Head(keys)].score + question_total(qa, Tail(keys))

analyze_reflection_questions(responses, a0) ==
  LET a == reflect_questions(a0, responses, question_keys)
      total_question_score == question_total(a.question_analysis, question_keys)
  IN  [a EXCEPT
         !.total_score = @ + total_question_score,
         !.element_scores = Put(@, "reflection_questions", total_question_score),
         !.detailed_feedback =
            Append(@, FB("Reflection Questions", total_question_score, 12500))]

(***************************************************************************)
(* _generate_r_corrections, _generate_code_corrections                     *)
(***************************************************************************)
(* the search terms of lines 1179-1277 that occur in a lower-cased         *)
(* code_issues entry                                                       *)
issue_terms(issue) ==
  IF issue = "ERROR: Error: path does not exist: data/sales.csv"
  THEN {"does not exist", ".csv", "path does not exist"}
  ELSE IF issue = "ERROR: Error: object 'sales_df' not found"
  THEN {"object", "not found", "sales_df"}
  ELSE IF issue = "ERROR: The following objects are masked from 'package:stats': filter, lag"
  THEN {"object"}
  ELSE {}

r_correction(issue) ==
  LET t == issue_terms(issue)
  IN  IF {"does not exist", ".csv"} \subseteq t THEN <<"Data Import Fix - CSV File Not Found">>
      ELSE IF {"path does not exist", ".xlsx"} \subseteq t
      THEN <<"Data Import Fix - Excel File Not Found">>
      ELSE IF {"object", "not found"} \subseteq t
      THEN IF "sales_df" \in t THEN <<"Variable Fix - sales_df not found">>
           ELSE IF "ratings_df" \in t THEN <<"Variable Fix - ratings_df not found">>
           ELSE IF "comments_df" \in t THEN <<"Variable Fix - comments_df not found">>
           ELSE <<"Variable Fix - Object Not Found">>
      ELSE IF "could not find function" \in t
      THEN IF "read_csv" \in t THEN <<"Function Fix - read_csv not found">>
           ELSE IF "read_excel" \in t THEN <<"Function Fix - read_excel not found">>
           ELSE <<"Function Fix - Function Not Found">>
      ELSE <<>>

RECURSIVE issue_corrections(_)
issue_corrections(code_issues) ==
  IF code_issues = <<>> THEN <<>>
  ELSE r_correction(Head(code_issues)) \o issue_corrections(Tail(code_issues))

generate_r_corrections(a) ==
  (IF a.tidyverse_conflicts_info THEN <<"About Tidyverse Conflicts">> ELSE <<>>)
  \o issue_corrections(a.code_issues)

(* a variant that writes only the corrections of the recorded issues *)
generate_code_corrections_for_issues(a) == generate_r_corrections(a)

generate_code_corrections(a) ==
  LET es == a.element_scores
      pkg_score == Get(es, "package_loading", 0)
  IN  (IF Get(es, "working_directory", 0) < 2000 THEN <<"Working Directory Fix">> ELSE <<>>)
      \o (IF pkg_score < 4000
          THEN IF pkg_score < 2000 THEN <<"Package Loading Fix (install)">>
               ELSE <<"Package Loading Fix (load)">>
          ELSE <<>>)
      \o (IF Get(es, "data_import", 0) < 8000 THEN <<"Data Import Fix">> ELSE <<>>)
      \o (IF Get(es, "data_inspection", 0) < 6000 THEN <<"Data Inspection Fix">> ELSE <<>>)
      \o generate_r_corrections(a)

(***************************************************************************)
(* _generate_friendly_recommendations                                      *)
(***************************************************************************)
generate_friendly_recommendations(a) ==
  LET es == a.element_scores
      reflection_score == Get(es, "reflection_questions", 0)
  IN  (IF Get(es, "working_directory", 0) < 2000 THEN <<"Working Directory">> ELSE <<>>)
      \o (IF Get(es, "package_loading", 0) < 4000 THEN <<"Package Loading">> ELSE <<>>)
      \o (IF Get(es, "data_import", 0) < 8000 THEN <<"Data Import">> ELSE <<>>)
      \o (IF Get(es, "data_inspection", 0) < 6000 THEN <<"Data Inspection">> ELSE <<>>)
      \o (IF reflection_score < 10000
          THEN IF reflection_score < 5000 THEN <<"Reflection Questions (take more time)">>
               ELSE <<"Reflection Questions (go deeper)">>
          ELSE <<>>)
      \o (IF a.code_issues # <<>>
          THEN <<"Code Execution">> \o generate_code_corrections(a)
          ELSE <<>>)
      \o (IF a.total_score * 100 < 70 * a.max_score THEN <<"Study Tip">> ELSE <<>>)

(***************************************************************************)
(* _generate_overall_assessment                                            *)
(***************************************************************************)
(* a variant that compares the fraction total_score / max_score with p *)
percentage_ge_fraction(a, p) == a.total_score >= p * a.max_score

(* score_percentage >= p, score_percentage = total_score / max_score * 100 *)
percentage_ge(a, p) == a.total_score * 100 >= p * a.max_score

(* a variant that takes the bounds of the opening sentence (85, 70, 50) *)
grade_level_as_opening(a) ==
  IF percentage_ge(a, 90) THEN "Excellent Work!"
  ELSE IF percentage_ge(a, 85) THEN "Good Job!"
  ELSE IF percentage_ge(a, 70) THEN "Nice Progress!"
  ELSE IF percentage_ge(a, 50) THEN "Keep Working!"
  ELSE "Let's Regroup"

(* lines 860-879 *)
grade_level(a) ==
  IF percentage_ge(a, 90) THEN "Excellent Work!"
  ELSE IF percentage_ge(a, 80) THEN "Good Job!"
  ELSE IF percentage_ge(a, 70) THEN "Nice Progress!"
  ELSE IF percentage_ge(a, 60) THEN "Keep Working!"
  ELSE "Let's Regroup"

generate_overall_assessment(a) ==
  [ grade_level |-> grade_level(a),
    opening |-> IF percentage_ge(a, 85) THEN "Strong work!"
                ELSE IF percentage_ge(a, 70) THEN "You're learning the fundamentals well."
                ELSE IF percentage_ge(a, 50) THEN "Good effort on this assignment."
                ELSE "This is challenging material",
    recommendations |-> generate_friendly_recommendations(a),
    closing |-> IF percentage_ge(a, 80) THEN "Keep this up."
                ELSE IF percentage_ge(a, 60) THEN "You're making progress."
                ELSE "Come to office hours if you need help." ]

(***************************************************************************)
(* format_detailed_feedback and parse_old_feedback_format                  *)
(* (grading_interface.py).  A string of the feedback list is modelled by   *)
(* what the parser reads in it: the search terms of the parser that occur  *)
(* in it (has) and the number before the slash of the first "x/y" in it    *)
(* (number, in thousandths; None when the string holds no "x/y").          *)
(***************************************************************************)
Item(text, has, number) == [text |-> text, has |-> has, number |-> number]

EmptyItem == Item("", {}, None)

(* f"{x:.1f}" read back by float(): the nearest tenth; half_up says which  *)
(* neighbour the double behind a decimal tie is printed as                  *)
OneDecimal(x, half_up) ==
  LET down == (x \div 100) * 100
      rest == x - down
  IN  IF rest > 50 \/ (rest = 50 /\ half_up) THEN down + 100 ELSE down

(* the scores format_detailed_feedback prints with one decimal fall on a   *)
(* decimal tie or not; only a tie has two printed forms                    *)
tie_directions(a) ==
  IF \/ a.total_score % 100 = 50
     \/ \E i \in 1..Len(a.detailed_feedback) :
           /\ a.detailed_feedback[i].label \in {"Data Inspection", "Reflection Questions"}
           /\ a.detailed_feedback[i].score % 100 = 50
     \/ \E q \in DOMAIN a.question_analysis : a.question_analysis[q].score % 100 = 50
  THEN BOOLEAN ELSE {TRUE}

(* the search terms of the parser in a line of detailed_feedback *)
label_terms(label) ==
  IF label = "Working Directory" THEN {"Working Directory", "points"}
  ELSE IF label = "Package Loading" THEN {"Package Loading", "points"}
  ELSE IF label = "CSV Import" THEN {"Import", "CSV", "points"}
  ELSE IF label = "Excel Import" THEN {"Import", "Excel", "points"}
  ELSE IF label = "Data Inspection" THEN {"Data Inspection", "points"}
  ELSE IF label = "Reflection Questions" THEN {"Reflection Questions", "points"}
  ELSE {}

(* "Excellent" holds "Excel" *)
quality_terms(qa) ==
  IF \E q \in DOMAIN qa : qa[q].quality = "Excellent" THEN {"Excel"} ELSE {}

(* one line of analysis['detailed_feedback'] as the stages wrote it: the   *)
(* scores of lines 132-141, 228 and 281-282 are printed as they are, those *)
(* of lines 377 and 469 with one decimal; the line without points (lines   *)
(* 103, 1127) holds no "x/y"                                               *)
feedback_item(fb, qa, half_up) ==
  Item(fb.label,
       label_terms(fb.label)
         \cup (IF fb.label = "Reflection Questions" THEN quality_terms(qa) ELSE {}),
       IF label_terms(fb.label) = {} THEN None
       ELSE IF fb.label \in {"Data Inspection", "Reflection Questions"}
       THEN OneDecimal(fb.score, half_up)
       ELSE fb.score)

(* lines 1559-1564: q_key.replace('_', ' ').title() *)
question_title(q_key) ==
  IF q_key = "data_types" THEN "Data Types:"
  ELSE IF q_key = "data_quality" THEN "Data Quality:"
  ELSE "Analysis Readiness:"

question_item(q_key, q_data, half_up) ==
  Item(question_title(q_key),
       {question_title(q_key), "points"}
         \cup (IF q_data.quality = "Excellent" THEN {"Excel"} ELSE {}),
       OneDecimal(q_data.score, half_up))

(* lines 1552-1557: f"• {issue}" *)
issue_item(issue) ==
  Item(issue,
       IF issue \in {"tidyverse loading error", "readxl loading error",
                     "Notebook analysis failed"}
       THEN {} ELSE {"ERROR:"},
       None)

(* the search terms of the parser in the text of a recommendation (lines   *)
(* 918-947, 1020-1095, 1169-1300)                                          *)
recommendation_terms(rec) ==
  IF rec \in {"Working Directory", "Working Directory Fix"} THEN {"Working Directory"}
  ELSE IF rec \in {"Package Loading", "Package Loading Fix (install)",
                   "Package Loading Fix (load)"} THEN {"Package Loading"}
  ELSE IF rec = "Data Import" THEN {"Import", "Excel"}
  ELSE IF rec = "Data Import Fix" THEN {"Import", "CSV", "Excel"}
  ELSE IF rec = "Data Import Fix - CSV File Not Found" THEN {"Import", "CSV"}
  ELSE IF rec = "Data Import Fix - Excel File Not Found" THEN {"Import", "Excel"}
  ELSE IF rec \in {"Data Inspection", "Data Inspection Fix"} THEN {"Data Inspection"}
  ELSE IF rec \in {"Reflection Questions (take more time)",
                   "Reflection Questions (go deeper)"} THEN {"Reflection Questions"}
  ELSE IF rec = "Function Fix - Function Not Found" THEN {"Excel"}
  ELSE {}

(* the string built by _generate_overall_assessment (lines 882-908): its   *)
(* header prints the grade level and "(total/max points - p%)"             *)
assessment_item(a, half_up) ==
  LET oa == a.overall_assessment
      graded == oa.grade_level \in {"Excellent Work!", "Good Job!", "Nice Progress!",
                                    "Keep Working!", "Let's Regroup"}
  IN  Item(oa.grade_level,
           (IF graded THEN {"points"} ELSE {})
             \cup (IF oa.grade_level \in {"Excellent Work!", "Good Job!", "Keep Working!"}
                   THEN {oa.grade_level} ELSE {})
             \cup (IF oa.grade_level = "Excellent Work!" THEN {"Excel"} ELSE {})
             \cup UNION { recommendation_terms(oa.recommendations[i]) :
                            i \in 1..Len(oa.recommendations) },
           IF graded THEN OneDecimal(a.total_score, half_up) ELSE None)

Plain(text) == Item(text, {}, None)

(* format_detailed_feedback, detailed_analyzer.py lines 1531-1573 *)
format_detailed_feedback(a, half_up) ==
  LET qa == a.question_analysis
      asked == SelectSeq(question_keys, LAMBDA q : q \in DOMAIN qa)
  IN  <<Plain("DETAILED HOMEWORK ANALYSIS"), Plain("="), Plain(""),
        Item("Final Score", {"points"}, None), Plain(""),
        Plain("DETAILED BREAKDOWN:")>>
      \o [i \in 1..Len(a.detailed_feedback) |->
            feedback_item(a.detailed_feedback[i], qa, half_up)]
      \o <<Plain("")>>
      \o (IF a.missing_elements # <<>>
          THEN <<Plain("MISSING ELEMENTS:")>>
               \o [i \in 1..Len(a.missing_elements) |-> Plain(a.missing_elements[i])]
               \o <<Plain("")>>
          ELSE <<>>)
      \o (IF a.code_issues # <<>>
          THEN <<Plain("CODE ISSUES TO FIX:")>>
               \o [i \in 1..Len(a.code_issues) |-> issue_item(a.code_issues[i])]
               \o <<Plain("")>>
          ELSE <<>>)
      \o (IF asked # <<>>
          THEN <<Plain("REFLECTION QUESTIONS ANALYSIS:")>>
               \o [i \in 1..Len(asked) |-> question_item(asked[i], qa[asked[i]], half_up)]
               \o <<Plain("")>>
          ELSE <<>>)
      \o <<assessment_item(a, half_up)>>

(* the grade phrases the parser looks for, grading_interface.py line 58 *)
assessment_phrases == {"Good Job!", "Excellent Work!", "Keep Working!"}

(* the branch of the chain of lines 26-59 that a string takes *)
parse_branch(item) ==
  IF {"Working Directory", "points"} \subseteq item.has THEN "working_directory"
  ELSE IF {"Package Loading", "points"} \subseteq item.has THEN "package_loading"
  ELSE IF {"Import", "points"} \subseteq item.has
  THEN IF "CSV" \in item.has THEN "csv_import"
       ELSE IF "Excel" \in item.has THEN "excel_import"
       ELSE "import"
  ELSE IF {"Data Inspection", "points"} \subseteq item.has THEN "data_inspection"
  ELSE IF {"Reflection Questions", "points"} \subseteq item.has THEN "reflection_questions"
  ELSE IF "ERROR:" \in item.has THEN "code_issues"
  ELSE IF item.has \cap assessment_phrases # {} THEN "overall_assessment"
  ELSE "none"

parsed_keys ==
  {"working_directory", "package_loading", "csv_import", "excel_import",
   "data_inspection", "reflection_questions"}

(* the strings of the list that write under a key: those that take its    *)
(* branch and hold an "x/y" (score_match is not None)                      *)
writers(branches, feedback_list, key) ==
  { i \in 1..Len(feedback_list) :
      branches[i] = key /\ feedback_list[i].number # None }

Last(S) == CHOOSE i \in S : \A j \in S : j <= i

(* the branch of the chain of lines 62-75 that a string takes *)
question_branch(item) ==
  IF "Data Types:" \in item.has THEN "data_types"
  ELSE IF "Data Quality:" \in item.has THEN "data_quality"
  ELSE IF "Analysis Readiness:" \in item.has THEN "analysis_readiness"
  ELSE "none"

(* the values of lines 64-74 *)
parsed_question(q_key) ==
  IF q_key = "analysis_readiness"
  THEN [score |-> 2700, max_score |-> 4500, quality |-> "Satisfactory"]
  ELSE [score |-> 3800, max_score |-> 4000, quality |-> "Excellent"]

(* lines 14-20 *)
empty_parse(feedback_list) ==
  [ element_scores |-> EmptyDict,
    code_issues |-> <<>>,
    question_analysis |-> EmptyDict,
    detailed_feedback |-> feedback_list,
    overall_assessment |-> EmptyItem ]

(* the two loops of lines 23-75: every string writes under the key of its  *)
(* branch, so the last writer of a key is the one that stays               *)
parse_old_feedback_format(feedback_list) ==
  LET branches == <<>> \o [i \in 1..Len(feedback_list) |-> parse_branch(feedback_list[i])]
      assessments == { i \in 1..Len(feedback_list) : branches[i] = "overall_assessment" }
      written == { k \in parsed_keys : writers(branches, feedback_list, k) # {} }
  IN  [ element_scores |->
          [ key \in written |->
              feedback_list[Last(writers(branches, feedback_list, key))].number ],
        code_issues |->
          SelectSeq(feedback_list, LAMBDA item : parse_branch(item) = "code_issues"),
        question_analysis |->
          [ q_key \in { question_branch(feedback_list[i]) : i \in 1..Len(feedback_list) }
                        \ {"none"} |-> parsed_question(q_key) ],
        detailed_feedback |-> feedback_list,
        overall_assessment |->
          IF assessments = {} THEN EmptyItem ELSE feedback_list[Last(assessments)] ]

(***************************************************************************)
(* The two report entry points of grading_interface.py: what each hands to *)
(* generate_report for a stored feedback that is a list of strings.        *)
(***************************************************************************)
(* generate_student_reports_interface, lines 361-372: the list is parsed *)
student_reports_result(feedback_list, ai_score) ==
  LET analysis_result == parse_old_feedback_format(feedback_list)
  IN  [ element_scores |-> analysis_result.element_scores,
        code_issues |-> analysis_result.code_issues,
        question_analysis |-> analysis_result.question_analysis,
        detailed_feedback |-> analysis_result.detailed_feedback,
        overall_assessment |-> analysis_result.overall_assessment,
        total_score |-> ai_score,
        max_score |-> 37500 ]

(* generate_individual_report, lines 426-462: the list is kept as          *)
(* detailed_feedback and the other entries are fixed                       *)
individual_report_result(feedback_list, ai_score) ==
  [ element_scores |-> EmptyDict,
    code_issues |-> <<>>,
    question_analysis |-> EmptyDict,
    detailed_feedback |-> feedback_list,
    overall_assessment |-> Item("AI-generated feedback available.", {}, None),
    missing_elements |-> <<>>,
    total_score |-> ai_score,
    max_score |-> 37500 ]

(***************************************************************************)
(* view_results_page (grading_interface.py lines 78-158).  A render cycle  *)
(* is one run of the page function; a button returns True in the run its   *)
(* press started, and only a button the previous run put on the screen can *)
(* be pressed.  The page is its session flag show_clear_confirm ("absent"  *)
(* until it is first assigned), the number of submissions of every         *)
(* assignment in the database, the assignment the selectbox shows, the     *)
(* buttons on the screen and the button whose press started the last step  *)
(* ("none" when the step was not a press).                                 *)
(***************************************************************************)
MaxSubmissions == 3

Assignments == {"Assignment 1", "Assignment 2"}

(* a variant that shows the confirmation while the flag was never assigned *)
confirm_shown_unless_false(show_clear_confirm) == show_clear_confirm # "False"

(* st.session_state.get('show_clear_confirm', False), line 140 *)
confirm_shown(show_clear_confirm) == show_clear_confirm = "True"

(* a run in which no button is pressed: lines 103-106 return before any    *)
(* button when the assignment has no submissions; otherwise "Clear         *)
(* Results" is shown (line 136) and, with the flag set, the two buttons of *)
(* the confirmation (lines 145 and 156)                                    *)
render(show_clear_confirm, submissions, assignment_id) ==
  [ show_clear_confirm |-> show_clear_confirm,
    submissions |-> submissions,
    buttons |-> IF submissions[assignment_id] = 0 THEN {}
                ELSE IF confirm_shown(show_clear_confirm)
                THEN {"Clear Results", "Yes, Delete All", "Cancel"}
                ELSE {"Clear Results"} ]

(* the run a press of `pressed` starts, lines 103-158, with the run that   *)
(* st.rerun() starts after it (lines 153 and 158)                          *)
view_results_page(show_clear_confirm, submissions, assignment_id, pressed) ==
  IF submissions[assignment_id] = 0
  THEN render(show_clear_confirm, submissions, assignment_id)
  ELSE LET flag == IF pressed = "Clear Results" THEN "True" ELSE show_clear_confirm
       IN  IF confirm_shown(flag) /\ pressed = "Yes, Delete All"
           THEN render("False", [submissions EXCEPT ![assignment_id] = 0], assignment_id)
           ELSE IF confirm_shown(flag) /\ pressed = "Cancel"
           THEN render("False", submissions, assignment_id)
           ELSE render(flag, submissions, assignment_id)

(* the page of a session that has not opened it *)
NoView ==
  [ show_clear_confirm |-> "absent",
    submissions |-> [a \in Assignments |-> 0],
    selected |-> "Assignment 1",
    buttons |-> {},
    pressed |-> "none" ]

(* the page after a cycle *)
Cycle(run, assignment_id, pressed) ==
  [ show_clear_confirm |-> run.show_clear_confirm,
    submissions |-> run.submissions,
    selected |-> assignment_id,
    buttons |-> run.buttons,
    pressed |-> pressed ]

(***************************************************************************)
(* PDFReportGenerator (report_generator.py).  The generator object is its  *)
(* attributes: output_dir, and styles, the style sheet that the methods    *)
(* _add_header ... _add_recommendations index; None stands for an          *)
(* attribute the object does not have.                                     *)
(***************************************************************************)
StudentNames == {"", "Ada Lovelace"}

AssignmentIds == {"Assignment 1"}

(* __init__, lines 20-22: output_dir is stored and created; no other       *)
(* attribute is set                                                        *)
PDFReportGenerator_init(output_dir) == [output_dir |-> output_dir, styles |-> None]

(* re.sub(r'[^\w\s-]', '', name).replace(' ', '_'), lines 27 and 79 *)
clean_name(name) ==
  IF name = "Ada Lovelace" THEN "Ada_Lovelace"
  ELSE IF name = "Assignment 1" THEN "Assignment_1"
  ELSE name

(* _get_assignment_folder, lines 24-30: the folder is created and returned *)
(* at line 30; the style set-up written below the return (lines 32-54) is  *)
(* never run, so the object is left as it was                              *)
get_assignment_folder(self, assignment_id) ==
  [ folder |-> <<self.output_dir, clean_name(assignment_id)>>, self |-> self ]

(* the report of a call: the exception it raised, the value it returned    *)
(* and the files and folders it left on disk                               *)
NoReport ==
  [raised |-> "not_called", returned |-> None, files |-> {}, folders |-> {},
   breakdown |-> EmptyDict]

(* _add_detailed_breakdown, lines 181-208: the line "Performance by        *)
(* Category" prints for every key of element_scores, with the maximum the  *)
(* chain of lines 185-196 picks; the percentage is kept in thousandths of  *)
(* a percent                                                               *)
add_detailed_breakdown(analysis_result) ==
  [ element \in DOMAIN analysis_result.element_scores |->
      LET score == analysis_result.element_scores[element]
          max == IF element = "working_directory" THEN 2000
                 ELSE IF element = "package_loading" THEN 4000
                 ELSE IF element \in {"csv_import", "excel_import"} THEN 6000
                 ELSE IF element = "data_inspection" THEN 8000
                 ELSE IF element = "reflection_questions" THEN 12500
                 ELSE 5000
      IN  [score |-> score, max_score |-> max, percentage |-> (score * 100000) \div max] ]

(* generate_report, lines 74-107: the file is written by doc.build (line   *)
(* 105), after the sections are added; _add_header reads self.styles first *)
(* (line 112), an AttributeError on an object without the attribute        *)
generate_report(self, student_name, assignment_id, analysis_result) ==
  LET safe_student_name == IF student_name = "" THEN "Unknown_Student" ELSE student_name
      filename == clean_name(safe_student_name)
      called == get_assignment_folder(self, assignment_id)
      filepath == called.folder \o <<filename>>
      folders == {<<self.output_dir>>, called.folder}
  IN  IF called.self.styles = None
      THEN [raised |-> "AttributeError", returned |-> None, files |-> {}, folders |-> folders,
            breakdown |-> EmptyDict]
      ELSE [raised |-> "none", returned |-> filepath, files |-> {filepath},
            folders |-> folders, breakdown |-> add_detailed_breakdown(analysis_result)]

(***************************************************************************)
(* _setup_data_files: the data files on disk are a record of three sets of *)
(* file names, those of the project's data/ directory, those of the        *)
(* notebook directory's data/ folder and those of the notebook directory.  *)
(***************************************************************************)
(* lines 6-9: the names the module binds at its top (nbformat, re, json    *)
(* and the typing names)                                                   *)
module_imports == {"nbformat", "re", "json", "Dict", "List", "Tuple", "Any"}

(* lines 1410-1416 *)
required_files ==
  {"sales_data.csv", "customer_feedback.xlsx", "ratings_data.xlsx",
   "customer_ratings.csv", "customer_comments.csv"}

(* the disk before a notebook is graded: the project holds the two files   *)
(* of the assignment and nothing is in the notebook directory yet          *)
ProjectFiles ==
  [project |-> {"sales_data.csv", "customer_feedback.xlsx"}, data |-> {}, root |-> {}]

(* lines 1382-1434.  The function imports shutil only (line 1385) and the  *)
(* module does not import os, so line 1389 raises NameError, which the     *)
(* handler of lines 1433-1434 prints.  Otherwise: every required file of   *)
(* the project is copied to both places (lines 1418-1430), and the two     *)
(* workbooks are written from the two csv files when they are absent       *)
(* (lines 1436-1448, pandas taken as installed); copying a workbook that   *)
(* could not be written raises into the same handler (line 1441).          *)
setup_data_files(fsys) ==
  IF "os" \notin module_imports \cup {"shutil"}
  THEN fsys
  ELSE LET copied == required_files \cap fsys.project
           data1 == fsys.data \cup copied
           root1 == fsys.root \cup copied
           writable == {"customer_ratings.csv", "customer_comments.csv"} \subseteq fsys.project
       IN  IF "customer_feedback.xlsx" \in data1
           THEN [fsys EXCEPT !.data = data1 \cup (IF ~("ratings_data.xlsx" \in data1) /\ writable
                                                  THEN {"ratings_data.xlsx"} ELSE {}),
                             !.root = root1]
           ELSE IF writable
           THEN [fsys EXCEPT !.data = data1 \cup {"customer_feedback.xlsx", "ratings_data.xlsx"},
                             !.root = root1 \cup {"customer_feedback.xlsx"}]
           ELSE [fsys EXCEPT !.data = data1, !.root = root1]

(***************************************************************************)
(* The notebooks analysed: markdown cells.                                 *)
(***************************************************************************)
MarkdownPool ==
  { \* three sections, each with a full answer after "Your Answer:"
    <<"H", "T1", "NL", "P1", "NL", "ANS", "R1",
      "H", "T2", "NL", "P2", "NL", "ANS", "R2",
      "H", "T3", "NL", "P3", "NL", "ANS", "R3">>,
    \* the assignment template, not filled in
    <<"H", "T1", "PARA", "P1", "PARA", "BOLD", "ANS", "BOLD", "BRK",
      "H", "T2", "PARA", "P2", "PARA", "BOLD", "ANS", "BOLD", "BRK",
      "H", "T3", "PARA", "P3", "PARA", "BOLD", "ANS", "BOLD", "BRK">>,
    \* one question, answers of 15 and of 16 characters
    <<"H", "T1", "NL", "P1B", "NL", "ANS", "R15">>,
    <<"H", "T1", "NL", "P1B", "NL", "ANS", "R16">>,
    \* an answer after a dash, after the placeholder, and a placeholder answer
    <<"H", "T1", "NL", "P1B", "NL", "ANS", "DASH", "RMID">>,
    <<"H", "T1", "NL", "P1B", "NL", "ANS", "BRK", "RMID">>,
    <<"H", "T1", "NL", "P1B", "NL", "ANS", "RTODO">>,
    \* answers without headings or introductions
    <<"R2", "PARA", "R3">>,
    \* a title only
    <<"H", "T2">> }

Notebooks ==
  UNION { { c \o m : c \in [1..k -> CodePool],
                       m \in SeqUpTo({ MarkdownCell(src) : src \in MarkdownPool },
                                      MaxCells - k) } : k \in 0..MaxCells }

(***************************************************************************)
(* The external interpreter (nbconvert's ExecutePreprocessor): it replaces *)
(* the outputs of every code cell and numbers the cells it ran.  Its       *)
(* outputs are not determined by this repository; two outcomes are         *)
(* modelled, one where every cell prints a result and one where none does. *)
(***************************************************************************)
KernelOutcomes == {"echo", "quiet"}

KernelRun(cells, k) ==
  [ i \in 1..Len(cells) |->
      IF cells[i].cell_type = "code"
      THEN [cells[i] EXCEPT !.outputs = IF k = "echo" THEN <<ResultOut>> ELSE <<>>,
                            !.outputs_is_none = FALSE,
                            !.execution_count = i]
      ELSE cells[i] ]

RECURSIVE SelectCells(_, _)
SelectCells(cells, type) ==
  IF cells = <<>> THEN <<>>
  ELSE (IF Head(cells).cell_type = type THEN <<Head(cells)>> ELSE <<>>)
       \o SelectCells(Tail(cells), type)

(* the copy after ep.preprocess ran its first n code cells only; the cells *)
(* it did not reach keep what the notebook document recorded               *)
KernelRunFirst(cells, k, n) ==
  [ i \in 1..Len(cells) |->
      IF /\ cells[i].cell_type = "code"
         /\ Len(SelectCells(SubSeq(cells, 1, i), "code")) <= n
      THEN KernelRun(cells, k)[i]
      ELSE cells[i] ]

(***************************************************************************)
(* analyze_notebook                                                        *)
(***************************************************************************)
Init ==
  /\ nb \in Notebooks
  /\ pc = "open"
  /\ executed_nb = <<>>
  /\ code_cells = <<>>
  /\ markdown_cells = <<>>
  /\ question_responses = EmptyDict
  /\ analysis = FreshAnalysis
  /\ exc = "none"
  /\ execution = "not_run"
  /\ parsed = empty_parse(<<>>)
  /\ report = NoReport
  /\ files = ProjectFiles
  /\ handed = EmptyDict
  /\ view = NoView

(* a variant that hands back what the stages had built *)
except_result_partial(partial) == partial

(* the except branch of lines 99-109: what analyze_notebook returns when   *)
(* an exception is raised while `partial` is the analysis built so far     *)
except_result(partial) == ErrorResult

(* lines 55-56: the document is read *)
OpenNotebook ==
  /\ pc = "open"
  /\ pc' = "execute"
  /\ UNCHANGED <<nb, executed_nb, code_cells, markdown_cells, question_responses,
                 analysis, exc, execution, parsed, report, files, handed, view>>

(* lines 55-56 raise: the document is unreadable or malformed *)
OpenFails ==
  /\ pc = "open"
  /\ analysis' = except_result(analysis)
  /\ exc' = "load"
  /\ pc' = "returned"
  /\ UNCHANGED <<nb, executed_nb, code_cells, markdown_cells, question_responses,
                 execution, parsed, report, files, handed, view>>

(* line 59, _execute_notebook_safely: the data files are set up (line     *)
(* 1361), then ep.preprocess runs every cell of the copy read back at      *)
(* lines 1353-1354 and the copy is returned (line 1373)                    *)
ExecuteNotebook ==
  /\ pc = "execute"
  /\ \E k \in KernelOutcomes : executed_nb' = KernelRun(nb, k)
  /\ files' = setup_data_files(files)
  /\ execution' = "executed"
  /\ pc' = "extract"
  /\ UNCHANGED <<nb, code_cells, markdown_cells, question_responses, analysis, exc,
                 parsed, report, handed, view>>

(* line 59, _execute_notebook_safely: ep.preprocess raises (a cell timed   *)
(* out, the kernel died) after it ran the first n code cells of the copy;  *)
(* the handler of lines 1367-1368 prints and the copy is returned as it is *)
(* (line 1373).  The cells that ran are taken to have printed a result; a  *)
(* run that fails before its first cell returns a copy equal to the        *)
(* notebook as read, the value ExecuteFallback gives.                      *)
ExecuteInterrupted ==
  /\ pc = "execute"
  /\ \E n \in 1..(Len(SelectCells(nb, "code")) - 1) :
        executed_nb' = KernelRunFirst(nb, "echo", n)
  /\ files' = setup_data_files(files)
  /\ execution' = "interrupted"
  /\ pc' = "extract"
  /\ UNCHANGED <<nb, code_cells, markdown_cells, question_responses, analysis, exc,
                 parsed, report, handed, view>>

(* line 59, _execute_notebook_safely falls back to the notebook as read:   *)
(* nbconvert cannot be imported or a step outside ep.preprocess raises     *)
(* (lines 1375-1380), with the data files set up or not yet, or            *)
(* ep.preprocess raises before it changed the copy                         *)
ExecuteFallback ==
  /\ pc = "execute"
  /\ executed_nb' = nb
  /\ files' \in {files, setup_data_files(files)}
  /\ execution' = "unavailable"
  /\ pc' = "extract"
  /\ UNCHANGED <<nb, code_cells, markdown_cells, question_responses, analysis, exc,
                 parsed, report, handed, view>>

(* the dictionary appended to code_cells at lines 80-83 *)
code_cell_entry(cell) ==
  [source |-> cell.source, outputs |-> cell.outputs, outputs_is_none |-> cell.outputs_is_none]

(* lines 61-85 *)
ExtractCells ==
  /\ pc = "extract"
  /\ analysis' = FreshAnalysis
  /\ code_cells' = LET c == SelectCells(executed_nb, "code")
                   IN  [i \in 1..Len(c) |-> code_cell_entry(c[i])]
  /\ markdown_cells' = LET m == SelectCells(executed_nb, "markdown")
                       IN  [i \in 1..Len(m) |-> m[i].source]
  /\ pc' = "working_directory"
  /\ UNCHANGED <<nb, executed_nb, question_responses, exc, execution, parsed, report, files, handed, view>>

(* a stage of lines 88-92 that runs to its end, or raises into the except  *)
(* branch                                                                  *)
Stage(here, raises, result, next) ==
  /\ pc = here
  /\ IF raises
     THEN /\ analysis' = except_result(analysis)
          /\ exc' = here
          /\ pc' = "returned"
     ELSE /\ analysis' = result
          /\ exc' = exc
          /\ pc' = next

(* line 88 *)
AnalyzeWorkingDirectory ==
  /\ Stage("working_directory", FALSE,
           analyze_working_directory(code_cells, analysis), "package_loading")
  /\ UNCHANGED <<nb, executed_nb, code_cells, markdown_cells, question_responses,
                 execution, parsed, report, files, handed, view>>

(* line 89 *)
AnalyzePackageLoading ==
  /\ Stage("package_loading", package_loading_raises(code_cells),
           analyze_package_loading(code_cells, analysis), "data_import")
  /\ UNCHANGED <<nb, executed_nb, code_cells, markdown_cells, question_responses,
                 execution, parsed, report, files, handed, view>>

(* line 90 *)
AnalyzeDataImport ==
  /\ Stage("data_import", FALSE,
           analyze_data_import(code_cells, analysis), "data_inspection")
  /\ UNCHANGED <<nb, executed_nb, code_cells, markdown_cells, question_responses,
                 execution, parsed, report, files, handed, view>>

(* line 91 *)
AnalyzeDataInspection ==
  /\ Stage("data_inspection", detect_code_errors_raises(code_cells),
           analyze_data_inspection(code_cells, analysis), "reflection_questions")
  /\ UNCHANGED <<nb, executed_nb, code_cells, markdown_cells, question_responses,
                 execution, parsed, report, files, handed, view>>

(* line 92 *)
AnalyzeReflectionQuestions ==
  /\ pc = "reflection_questions"
  /\ question_responses' = extract_question_responses(JoinCells(markdown_cells))
  /\ analysis' = analyze_reflection_questions(question_responses', analysis)
  /\ pc' = "overall_assessment"
  /\ UNCHANGED <<nb, executed_nb, code_cells, markdown_cells, exc, execution, parsed, report, files, handed, view>>

(* lines 95-97 *)
GenerateOverallAssessment ==
  /\ pc = "overall_assessment"
  /\ analysis' = [analysis EXCEPT !.overall_assessment = generate_overall_assessment(analysis)]
  /\ pc' = "returned"
  /\ UNCHANGED <<nb, executed_nb, code_cells, markdown_cells, question_responses, exc,
                 execution, parsed, report, files, handed, view>>

(* the returned result is formatted by format_detailed_feedback and the   *)
(* list, as stored, is read back by parse_old_feedback_format             *)
(* (grading_interface.py lines 12-77) and by the two report entry points   *)
(* (lines 361-372 and 426-462)                                             *)
ParseOldFeedback ==
  /\ pc = "returned"
  /\ parsed = empty_parse(<<>>)
  /\ \E half_up \in tie_directions(analysis) :
        LET feedback == <<>> \o format_detailed_feedback(analysis, half_up)
        IN  /\ parsed' = parse_old_feedback_format(feedback)
            /\ handed' = [ students |-> student_reports_result(feedback, analysis.total_score),
                           individual |->
                             individual_report_result(feedback, analysis.total_score) ]
  /\ UNCHANGED <<nb, pc, executed_nb, code_cells, markdown_cells, question_responses,
                 analysis, exc, execution, report, files, view>>

(* a freshly constructed PDFReportGenerator is asked for the report of the *)
(* returned result (grading_interface.py lines 341 and 377)                *)
GenerateReport ==
  /\ pc = "returned"
  /\ report = NoReport
  /\ \E student_name \in StudentNames, assignment_id \in AssignmentIds :
        report' = generate_report(PDFReportGenerator_init("reports"), student_name,
                                  assignment_id, analysis)
  /\ UNCHANGED <<nb, pc, executed_nb, code_cells, markdown_cells, question_responses,
                 analysis, exc, execution, parsed, files, handed, view>>

Next ==
  \/ OpenNotebook
  \/ OpenFails
  \/ ExecuteNotebook
  \/ ExecuteInterrupted
  \/ ExecuteFallback
  \/ ExtractCells
  \/ AnalyzeWorkingDirectory
  \/ AnalyzePackageLoading
  \/ AnalyzeDataImport
  \/ AnalyzeDataInspection
  \/ AnalyzeReflectionQuestions
  \/ GenerateOverallAssessment
  \/ ParseOldFeedback
  \/ GenerateReport

Spec == Init /\ [][Next]_vars

(***************************************************************************)
(* _analyze_single_question called on its own: the arguments are drawn     *)
(* from the question keys (and a key outside the table, "other", given the *)
(* table entry of data_types) and from short texts; the call stores what   *)
(* it returns.                                                             *)
(***************************************************************************)
MaxResponseLen == 2

ResponseTokens ==
  {"R1", "R2", "R3", "R90", "RMID", "R16", "BRK", "YAH", "RTODO", "RADD", "HERE", "NL"}

QuestionKeyInputs == {"data_types", "data_quality", "analysis_readiness", "other"}

q_info_of(q_key) ==
  IF q_key \in DOMAIN questions THEN questions[q_key] ELSE questions["data_types"]

InitQuestion ==
  /\ nb = <<>>
  /\ pc = "question"
  /\ executed_nb = <<>>
  /\ code_cells = <<>>
  /\ markdown_cells = <<>>
  /\ question_responses \in
       { Put(EmptyDict, q_key, response) :
           q_key \in QuestionKeyInputs,
           response \in SeqUpTo(ResponseTokens, MaxResponseLen) }
  /\ analysis = FreshAnalysis
  /\ exc = "none"
  /\ execution = "not_run"
  /\ parsed = empty_parse(<<>>)
  /\ report = NoReport
  /\ files = ProjectFiles
  /\ handed = EmptyDict
  /\ view = NoView

ScoreQuestion ==
  /\ pc = "question"
  /\ analysis' =
       [analysis EXCEPT !.question_analysis =
          [q_key \in DOMAIN question_responses |->
             analyze_single_question(q_key, question_responses[q_key], q_info_of(q_key))]]
  /\ pc' = "question_scored"
  /\ UNCHANGED <<nb, executed_nb, code_cells, markdown_cells, question_responses, exc,
                 execution, parsed, report, files, handed, view>>

NextQuestion == ScoreQuestion

SpecQuestion == InitQuestion /\ [][NextQuestion]_vars

(***************************************************************************)
(* The View Results page over render cycles.  The database changes from    *)
(* outside the page only by new submissions.                               *)
(***************************************************************************)
InitView ==
  /\ nb = <<>>
  /\ pc = "view"
  /\ executed_nb = <<>>
  /\ code_cells = <<>>
  /\ markdown_cells = <<>>
  /\ question_responses = EmptyDict
  /\ analysis = FreshAnalysis
  /\ exc = "none"
  /\ execution = "not_run"
  /\ parsed = empty_parse(<<>>)
  /\ report = NoReport
  /\ files = ProjectFiles
  /\ handed = EmptyDict
  /\ \E submissions \in [Assignments -> 0..MaxSubmissions], assignment_id \in Assignments :
        view = Cycle(render("absent", submissions, assignment_id), assignment_id, "none")

(* a button on the screen is pressed and the page runs *)
PressButton ==
  /\ pc = "view"
  /\ \E pressed \in view.buttons :
        view' = Cycle(view_results_page(view.show_clear_confirm, view.submissions,
                                        view.selected, pressed),
                      view.selected, pressed)
  /\ UNCHANGED <<nb, pc, executed_nb, code_cells, markdown_cells, question_responses,
                 analysis, exc, execution, parsed, report, files, handed>>

(* the selectbox of line 91 is set, or the page is loaded again: a run     *)
(* with no button pressed                                                  *)
SelectAssignment ==
  /\ pc = "view"
  /\ \E assignment_id \in Assignments :
        view' = Cycle(view_results_page(view.show_clear_confirm, view.submissions,
                                        assignment_id, "none"),
                      assignment_id, "none")
  /\ UNCHANGED <<nb, pc, executed_nb, code_cells, markdown_cells, question_responses,
                 analysis, exc, execution, parsed, report, files, handed>>

(* a notebook is submitted for an assignment: a row is added to the        *)
(* database; the screen stays as the last run left it                      *)
NewSubmission ==
  /\ pc = "view"
  /\ \E assignment_id \in Assignments :
        /\ view.submissions[assignment_id] < MaxSubmissions
        /\ view' = [view EXCEPT !.submissions[assignment_id] = @ + 1, !.pressed = "none"]
  /\ UNCHANGED <<nb, pc, executed_nb, code_cells, markdown_cells, question_responses,
                 analysis, exc, execution, parsed, report, files, handed>>

NextView == PressButton \/ SelectAssignment \/ NewSubmission

SpecView == InitView /\ [][NextView]_vars

(* the call has returned a result built by the analysis stages *)
Returned == pc = "returned" /\ exc = "none"

(***************************************************************************)
(* Properties of the result of analyze_notebook.                           *)
(***************************************************************************)

(* C1: in every result analyze_notebook returns, the failure result        *)
(* included, total_score is the sum of the values of element_scores.       *)
C1_TotalIsSumOfElementScores ==
  LET RECURSIVE SumValues(_, _)
      SumValues(d, keys) ==
        IF keys = {} THEN 0
        ELSE LET k == CHOOSE x \in keys : TRUE
             IN  d[k] + SumValues(d, keys \ {k})
  IN  pc = "returned" =>
        analysis.total_score =
          SumValues(analysis.element_scores, DOMAIN analysis.element_scores)

(* a result in which the import element and three more elements scored *)
C1_Witness ==
  /\ Returned
  /\ Get(analysis.element_scores, "data_import", 0) = 11000
  /\ Cardinality({ k \in DOMAIN analysis.element_scores :
                     analysis.element_scores[k] > 0 }) >= 4

(* C2: every entry of element_scores of a returned result lies between 0   *)
(* and the maximum of its element: working_directory 2, package_loading 4, *)
(* data import 11 (5 + 6), data_inspection 8, reflection_questions 12.5.   *)
C2_ElementScoresWithinMax ==
  LET max_points(k) ==
        IF k = "data_import"
        THEN required_elements["csv_import"] + required_elements["excel_import"]
        ELSE required_elements[k]
  IN  pc = "returned" =>
        \A k \in DOMAIN analysis.element_scores :
          /\ k \in (DOMAIN required_elements) \cup {"data_import"}
          /\ 0 <= analysis.element_scores[k]
          /\ analysis.element_scores[k] <= max_points(k)

(* the inspection points earned exceed 8 and the element reports 8 *)
C2_Witness ==
  /\ Returned
  /\ function_total(code_cells, functions_to_check)
       + dataset_total(code_cells, datasets_to_check) > 8000
  /\ analysis.element_scores["data_inspection"] = 8000

(* C3: after analyze_notebook completes, element_scores holds exactly one  *)
(* entry for each of the six keys of the configuration table               *)
(* (working_directory, package_loading, csv_import, excel_import,          *)
(* data_inspection, reflection_questions) and no other key.                *)
C3_ElementKeysAreConfigKeys ==
  Returned => DOMAIN analysis.element_scores = DOMAIN required_elements

(* C4: code_issues of a returned result never holds two equal entries,     *)
(* also when the same error record or the same stderr error text appears   *)
(* in the outputs of several cells.                                        *)
C4_NoDuplicateCodeIssues ==
  pc = "returned" =>
    \A i, j \in 1..Len(analysis.code_issues) :
      i # j => analysis.code_issues[i] # analysis.code_issues[j]

(* C10: analyze_notebook always returns; when the notebook cannot be       *)
(* loaded or a stage raises, the result has total_score 0, max_score 37.5, *)
(* empty element_scores and exactly one detailed_feedback entry, nothing   *)
(* of what the stages had built.                                           *)
C10_FailureResultIsZero ==
  /\ exc # "none" => pc = "returned"
  /\ (pc = "returned" /\ exc # "none") =>
       /\ analysis.total_score = 0
       /\ analysis.max_score = 37500
       /\ analysis.element_scores = EmptyDict
       /\ Len(analysis.detailed_feedback) = 1
       /\ analysis.question_analysis = EmptyDict

(* a stage raised after earlier stages had scored *)
C10_Witness ==
  /\ pc = "returned"
  /\ exc \in {"package_loading", "data_inspection"}
  /\ GetwdCells(code_cells) # {}

(* C5: a notebook containing a code cell with source getwd() and at least  *)
(* one output record scores exactly 2 on working_directory; the same       *)
(* source with an empty output list and a null execution index scores      *)
(* exactly 0.5; a notebook with no getwd call scores 0.                    *)
C5_AnyGetwdCellDecides ==
  LET cells == SelectCells(executed_nb, "code")
      getwd_cells == { i \in 1..Len(cells) : cells[i].source = <<"getwd">> }
      score == analysis.element_scores["working_directory"]
  IN  Returned =>
        /\ (\E i \in getwd_cells : Len(cells[i].outputs) >= 1) => score = 2000
        /\ (\E i \in getwd_cells :
               /\ ~cells[i].outputs_is_none
               /\ cells[i].outputs = <<>>
               /\ cells[i].execution_count = None) => score = 500
        /\ (\A i \in 1..Len(cells) : ~SourceHas(cells[i].source, "getwd(")) => score = 0

(* C5 as amended: the first code cell whose source contains getwd( decides *)
(* the score: 2 when it has at least one output record, 0.5 when it has an *)
(* empty output list and a null execution index, and 0 when there is no    *)
(* such cell.                                                              *)
C5_FirstGetwdCellDecides ==
  LET cells == SelectCells(executed_nb, "code")
      holders == { i \in 1..Len(cells) : SourceHas(cells[i].source, "getwd(") }
      first(i) == i \in holders /\ \A j \in holders : i <= j
      score == analysis.element_scores["working_directory"]
  IN  Returned =>
        /\ (\E i \in holders : first(i) /\ Len(cells[i].outputs) >= 1) => score = 2000
        /\ (\E i \in holders :
               /\ first(i)
               /\ ~cells[i].outputs_is_none
               /\ cells[i].outputs = <<>>
               /\ cells[i].execution_count = None) => score = 500
        /\ holders = {} => score = 0

(* getwd() was not run in the first cell that holds it and was run, with   *)
(* output, in a later one; the element scored 0.5                          *)
C5_Witness ==
  LET cells == SelectCells(executed_nb, "code")
  IN  /\ Returned
      /\ Len(cells) = 2
      /\ cells[1].source = <<"getwd">> /\ cells[1].outputs = <<>>
      /\ cells[1].execution_count = None
      /\ cells[2].source = <<"getwd">> /\ Len(cells[2].outputs) >= 1
      /\ analysis.element_scores["working_directory"] = 500

(* C6: when library(tidyverse) and library(readxl) each appear in an       *)
(* executed cell (one with a non-empty output list or a numeric execution  *)
(* index) and no cell holding them has an error output, package_loading    *)
(* scores exactly 4; when only one of the two is loaded that way and the   *)
(* other appears in no cell, it scores exactly 2.                          *)
C6_LoadedPackagesScore ==
  LET cells == SelectCells(executed_nb, "code")
      holders(p) == { i \in 1..Len(cells) : SourceHas(cells[i].source, p) }
      executed(i) == Len(cells[i].outputs) >= 1 \/ cells[i].execution_count # None
      loaded(p) == /\ \E i \in holders(p) : executed(i)
                   /\ \A i \in holders(p) : ~HasErrorOutput(cells[i])
      score == analysis.element_scores["package_loading"]
  IN  Returned =>
        /\ (loaded("lib_tidyverse") /\ loaded("lib_readxl")) => score = 4000
        /\ (loaded("lib_tidyverse") /\ holders("lib_readxl") = {}) => score = 2000
        /\ (loaded("lib_readxl") /\ holders("lib_tidyverse") = {}) => score = 2000

C8_PlaceholderScoresHalf ==
  pc = "question_scored" =>
    \A q_key \in DOMAIN question_responses :
      (\E p \in {"[write your response here]", "[your answer here]", "todo",
                  "add your", "write your response"} :
          TextHas(question_responses[q_key], p)) =>
        /\ analysis.question_analysis[q_key].score = 500
        /\ analysis.question_analysis[q_key].quality = "Incomplete"

(* a response of more than 40 words that holds keywords of its question    *)
(* and the text "todo" was scored 0.5, Incomplete                          *)
C8_Witness ==
  /\ pc = "question_scored"
  /\ "data_types" \in DOMAIN question_responses
  /\ TextHas(question_responses["data_types"], "todo")
  /\ WordCount(question_responses["data_types"]) >= 40
  /\ CountIn(question_responses["data_types"], questions["data_types"].keywords) >= 3
  /\ analysis.question_analysis["data_types"] = [score |-> 500, quality |-> "Incomplete"]

C11_FailedExecutionKeepsRecordedOutputs ==
  (pc \notin {"open", "execute"} /\ execution \in {"unavailable", "interrupted"}) =>
    /\ Len(executed_nb) = Len(nb)
    /\ \A i \in 1..Len(nb) :
          /\ executed_nb[i].outputs = nb[i].outputs
          /\ executed_nb[i].outputs_is_none = nb[i].outputs_is_none
    /\ pc \notin {"extract", "working_directory"} =>
          analysis.element_scores # EmptyDict \/ exc \in {"package_loading", "data_inspection"}

(***************************************************************************)
(* Properties of the feedback list read back by the report interface.      *)
(***************************************************************************)

(* C12: for every result of analyze_notebook whose feedback list holds the *)
(* labelled element lines and the overall-assessment string, whichever of  *)
(* the five overall templates it opens with,                               *)
(* parse_old_feedback_format(format_detailed_feedback(a)) has non-empty    *)
(* element_scores and a non-empty overall_assessment.                      *)
C12_ParsedFeedbackIsNotEmpty ==
  (Returned /\ parsed # empty_parse(<<>>)) =>
    /\ parsed.element_scores # EmptyDict
    /\ parsed.overall_assessment # EmptyItem

(***************************************************************************)
(* Properties of PDFReportGenerator.generate_report.                       *)
(***************************************************************************)

(* C13: a call of generate_report on a completed analysis result, made on  *)
(* a freshly constructed generator, writes exactly one output file and     *)
(* returns the path of that file.                                          *)
C13_ReportWritesOneFile ==
  report # NoReport =>
    /\ report.raised = "none"
    /\ Cardinality(report.files) = 1
    /\ report.returned \in report.files

(***************************************************************************)
(* Properties of the execution test of the rubric checks.                  *)
(***************************************************************************)

(* C14: a code cell with no outputs but a numeric execution_count is       *)
(* scored as executed by the checks run from analyze_notebook: when the    *)
(* first getwd cell is such a cell working_directory is 1.5; when every    *)
(* cell with the library call of a package is such a cell and the other    *)
(* package appears nowhere package_loading is 2; and every inspection      *)
(* function whose first cell is such a cell adds 2 to data_inspection.     *)
C14_ExecutionCountCountsAsExecuted ==
  LET cells == SelectCells(executed_nb, "code")
      counted(i) == Len(cells[i].outputs) = 0 /\ cells[i].execution_count # None
      holders(p) == { i \in 1..Len(cells) : SourceHas(cells[i].source, p) }
      first(p) == CHOOSE i \in holders(p) : \A j \in holders(p) : i <= j
      ran(p) == holders(p) # {} /\ counted(first(p))
      packages == {"lib_tidyverse", "lib_readxl"}
  IN  Returned =>
        /\ ran("getwd(") => analysis.element_scores["working_directory"] = 1500
        /\ \A p \in packages :
             (/\ holders(p) # {}
              /\ \A i \in holders(p) : counted(i)
              /\ \A q \in packages \ {p} : holders(q) = {}) =>
               analysis.element_scores["package_loading"] = 2000
        /\ analysis.element_scores["data_inspection"] >=
             2000 * Cardinality({ f \in {"head(", "str(", "summary("} : ran(f) })

(***************************************************************************)
(* Properties of missing_elements.                                         *)
(***************************************************************************)

(* C15: whenever a rubric check is scored below its top tier,              *)
(* missing_elements holds an entry naming it: getwd below 2, a package     *)
(* below 2 of the 4 of package_loading, a dataset import below its points, *)
(* an inspection function below 2, a reflection answer below Excellent.    *)
C15_BelowTopTierIsListed ==
  LET listed(e) == InSeq(e, analysis.missing_elements)
      scores == analysis.element_scores
  IN  Returned =>
        /\ scores["working_directory"] < 2000 => listed("getwd() function call")
        /\ scores["package_loading"] < 4000 =>
             listed("library(tidyverse)") \/ listed("library(readxl)")
        /\ scores["data_import"] < 11000 =>
             \/ listed("sales_df data import")
             \/ listed("ratings_df data import")
             \/ listed("comments_df data import")
        /\ \A f \in 1..Len(functions_to_check) :
             function_score(code_cells, functions_to_check[f]) < 2000 =>
               listed(func_name(functions_to_check[f]) \o "() function")
        /\ \A k \in 1..Len(question_keys) :
             analysis.question_analysis[question_keys[k]].quality # "Excellent" =>
               listed(questions[question_keys[k]].title \o " response")

(* C15 as amended: whenever a rubric check finds its element absent (no    *)
(* getwd call, no library call of a package, no import of a dataset, no    *)
(* call of an inspection function, no reflection answer kept),             *)
(* missing_elements holds an entry naming it; an element that is present   *)
(* adds no entry, whatever its tier.                                       *)
C15_AbsentIsListed ==
  LET listed(e) == InSeq(e, analysis.missing_elements)
      has(p) == \E i \in 1..Len(code_cells) : SourceHas(code_cells[i].source, p)
  IN  Returned =>
        /\ listed("getwd() function call") <=> ~has("getwd(")
        /\ listed("library(tidyverse)") <=> ~has("lib_tidyverse")
        /\ listed("library(readxl)") <=> ~has("lib_readxl")
        /\ listed("sales_df data import") <=> ~(has("sales_df") /\ has("read_csv"))
        /\ listed("ratings_df data import") <=> ~(has("ratings_df") /\ has("read_excel"))
        /\ listed("comments_df data import") <=> ~(has("comments_df") /\ has("read_excel"))
        /\ \A f \in {"head(", "str(", "summary("} :
             listed(func_name(f) \o "() function") <=> ~has(f)
        /\ \A k \in 1..Len(question_keys) :
             listed(questions[question_keys[k]].title \o " response")
               <=> analysis.question_analysis[question_keys[k]].quality = "Missing"

(* a result where getwd was written but not run, one package and one       *)
(* import are absent and one reflection answer is kept                     *)
C15_Witness ==
  /\ Returned
  /\ analysis.element_scores["working_directory"] = 500
  /\ ~InSeq("getwd() function call", analysis.missing_elements)
  /\ InSeq("library(readxl)", analysis.missing_elements)
  /\ InSeq("sales_df data import", analysis.missing_elements)
  /\ InSeq("head() function", analysis.missing_elements)
  /\ \E k \in 1..Len(question_keys) :
        analysis.question_analysis[question_keys[k]].quality \notin {"Missing", "Excellent"}

(***************************************************************************)
(* Properties of question_analysis.                                        *)
(***************************************************************************)

(* C16: after analyze_notebook, question_analysis holds at most one entry  *)
(* per reflection question key (its keys are among the three question      *)
(* keys) and no entry for a key whose response extraction failed.          *)
C16_NoEntryWithoutResponse ==
  LET keys == { question_keys[k] : k \in 1..Len(question_keys) }
  IN  Returned =>
        /\ DOMAIN analysis.question_analysis \subseteq keys
        /\ \A q \in keys :
             q \notin DOMAIN question_responses => q \notin DOMAIN analysis.question_analysis

(* C16 as amended: after analyze_notebook, question_analysis holds exactly *)
(* one entry per reflection question key; for a key whose response         *)
(* extraction failed the entry has score 0 and quality Missing.            *)
C16_MissingEntryWithoutResponse ==
  LET keys == { question_keys[k] : k \in 1..Len(question_keys) }
  IN  Returned =>
        /\ DOMAIN analysis.question_analysis = keys
        /\ \A q \in keys :
             q \notin DOMAIN question_responses =>
               /\ analysis.question_analysis[q].score = 0
               /\ analysis.question_analysis[q].quality = "Missing"

(* a result where one question's answer was extracted and graded and       *)
(* another's extraction failed                                             *)
C16_Witness ==
  /\ Returned
  /\ \E q \in DOMAIN question_responses :
        analysis.question_analysis[q].quality \notin {"Missing", "Incomplete"}
  /\ \E k \in 1..Len(question_keys) : question_keys[k] \notin DOMAIN question_responses

(***************************************************************************)
(* Properties of the three response scorers.                               *)
(***************************************************************************)

(* C17: for every question key and every response that is scored, the      *)
(* score is the plain sum of the three parts, each part is one of the      *)
(* fractions of the question's max points (4, 4, 4.5) that the tiers of    *)
(* its scorer give, the score lies in [0, max points], and the three top   *)
(* tiers together add up to exactly the max.                               *)
C17_ScoreIsSumOfParts ==
  LET tiers == [ data_types |-> <<{40, 25, 15, 0}, {40, 30, 20, 0}, {20, 15, 10, 0}>>,
                 data_quality |-> <<{50, 35, 20, 0}, {30, 20, 0}, {20, 15, 10, 0}>>,
                 analysis_readiness |-> <<{45, 30, 20, 0}, {35, 25, 15, 0}, {20, 15, 10, 0}>> ]
      top == [ data_types |-> <<40, 40, 20>>,
               data_quality |-> <<50, 30, 20>>,
               analysis_readiness |-> <<45, 35, 20>> ]
  IN  pc = "question_scored" =>
        \A q_key \in DOMAIN question_responses \cap DOMAIN questions :
          LET response == question_responses[q_key]
              max_points == questions[q_key].points
              parts == question_parts(q_key, response,
                                      CountIn(response, questions[q_key].keywords), max_points)
              score == analysis.question_analysis[q_key].score
          IN  /\ max_points \in {4000, 4500}
              /\ (max_points * top[q_key][1]) \div 100 + (max_points * top[q_key][2]) \div 100
                   + (max_points * top[q_key][3]) \div 100 = max_points
              /\ ~has_placeholder(response) =>
                   /\ score = parts[1] + parts[2] + parts[3]
                   /\ \A i \in 1..3 :
                        \E p \in tiers[q_key][i] : parts[i] * 100 = max_points * p
                   /\ 0 <= score /\ score <= max_points

(* a response at the three top tiers of its question is scored the max     *)
C17_Witness ==
  /\ pc = "question_scored"
  /\ \E q_key \in DOMAIN question_responses \cap DOMAIN questions :
        /\ ~has_placeholder(question_responses[q_key])
        /\ analysis.question_analysis[q_key].score = questions[q_key].points

C19_TemplateByPercentage ==
  LET total == analysis.total_score
      max == analysis.max_score
  IN  Returned =>
        analysis.overall_assessment.grade_level =
          IF 10 * total >= 9 * max THEN "Excellent Work!"
          ELSE IF 10 * total >= 8 * max THEN "Good Job!"
          ELSE IF 10 * total >= 7 * max THEN "Nice Progress!"
          ELSE IF 10 * total >= 6 * max THEN "Keep Working!"
          ELSE "Let's Regroup"

(* a result between 80% and 85% of the points opens with "Good Job!" *)
C19_Witness ==
  /\ Returned
  /\ 100 * analysis.total_score >= 80 * analysis.max_score
  /\ 100 * analysis.total_score < 85 * analysis.max_score
  /\ analysis.overall_assessment.grade_level = "Good Job!"

(***************************************************************************)
(* Properties of overall_assessment.recommendations.                       *)
(***************************************************************************)

(* the elements _generate_friendly_recommendations looks at, in its order: *)
(* the score under which an element gets its recommendation, the           *)
(* recommendation strings (lines 917-935) and the correction strings       *)
(* _generate_code_corrections writes from the same score (lines 1019-1098) *)
recommendation_table ==
  << [key |-> "working_directory", below |-> 2000,
      recommendation |-> {"Working Directory"},
      correction |-> {"Working Directory Fix"}],
     [key |-> "package_loading", below |-> 4000,
      recommendation |-> {"Package Loading"},
      correction |-> {"Package Loading Fix (install)", "Package Loading Fix (load)"}],
     [key |-> "data_import", below |-> 8000,
      recommendation |-> {"Data Import"},
      correction |-> {"Data Import Fix"}],
     [key |-> "data_inspection", below |-> 6000,
      recommendation |-> {"Data Inspection"},
      correction |-> {"Data Inspection Fix"}],
     [key |-> "reflection_questions", below |-> 10000,
      recommendation |-> {"Reflection Questions (take more time)",
                          "Reflection Questions (go deeper)"},
      correction |-> {}] >>

(* C20: the recommendations list holds, for each element scoring below its *)
(* threshold (working_directory < 2, package_loading < 4, data import < 8, *)
(* data_inspection < 6, reflection_questions < 10), one fixed string, at   *)
(* most one entry per element and in the order of the elements, also when  *)
(* code_issues is non-empty.                                               *)
C20_OneEntryPerElement ==
  LET list == analysis.overall_assessment.recommendations
      K == 1..Len(recommendation_table)
      row(k) == recommendation_table[k]
      entries(k) == { i \in 1..Len(list) :
                        list[i] \in row(k).recommendation \cup row(k).correction }
      below(k) == Get(analysis.element_scores, row(k).key, 0) < row(k).below
  IN  Returned =>
        /\ \A k \in K : Cardinality(entries(k)) = IF below(k) THEN 1 ELSE 0
        /\ \A k1, k2 \in K :
             k1 < k2 => \A i \in entries(k1) : \A j \in entries(k2) : i < j

(* C20 as amended: the recommendation strings are one per element below    *)
(* its threshold, in the order of the elements; when code_issues is        *)
(* non-empty, each of the first four elements below its threshold has a    *)
(* second entry, its correction, after the "Code Execution" entry and in   *)
(* the order of the elements; with no code issues there is no correction.  *)
C20_RecommendationThenCorrection ==
  LET list == analysis.overall_assessment.recommendations
      K == 1..Len(recommendation_table)
      row(k) == recommendation_table[k]
      recs(k) == { i \in 1..Len(list) : list[i] \in row(k).recommendation }
      fixes(k) == { i \in 1..Len(list) : list[i] \in row(k).correction }
      heading == { i \in 1..Len(list) : list[i] = "Code Execution" }
      below(k) == Get(analysis.element_scores, row(k).key, 0) < row(k).below
      issues == analysis.code_issues # <<>>
  IN  Returned =>
        /\ \A k \in K : Cardinality(recs(k)) = IF below(k) THEN 1 ELSE 0
        /\ \A k \in K :
             Cardinality(fixes(k)) =
               IF below(k) /\ issues /\ row(k).correction # {} THEN 1 ELSE 0
        /\ \A k1, k2 \in K :
             k1 < k2 => /\ \A i \in recs(k1) : \A j \in recs(k2) : i < j
                        /\ \A i \in fixes(k1) : \A j \in fixes(k2) : i < j
        /\ Cardinality(heading) = IF issues THEN 1 ELSE 0
        /\ \A k \in K : \A h \in heading :
             /\ \A i \in recs(k) : i < h
             /\ \A j \in fixes(k) : h < j

(* a result with a code issue whose working directory and data import are  *)
(* below their thresholds and whose package loading is not: the first two  *)
(* have a recommendation and a correction                                  *)
C20_Witness ==
  LET list == analysis.overall_assessment.recommendations
      has(s) == \E i \in 1..Len(list) : list[i] = s
  IN  /\ Returned
      /\ analysis.code_issues # <<>>
      /\ Get(analysis.element_scores, "working_directory", 0) < 2000
      /\ Get(analysis.element_scores, "data_import", 0) < 8000
      /\ Get(analysis.element_scores, "package_loading", 0) >= 4000
      /\ has("Working Directory") /\ has("Working Directory Fix")
      /\ has("Data Import") /\ has("Data Import Fix")
      /\ ~has("Package Loading Fix (load)")

(***************************************************************************)
(* Properties of _extract_question_responses.                              *)
(***************************************************************************)

(* C21: a reflection question key is resolved at most once per extraction: *)
(* the response of a key is the answer of the first section that claims    *)
(* it, whatever later sections and the blocks of the fallback pass hold;   *)
(* the fallback pass assigns only the keys no section claimed, each to the *)
(* first block that qualifies for it.                                      *)
C21_KeyResolvedOnce ==
  LET markdown_text == JoinCells(markdown_cells)
      sections == Sections(markdown_text)
      blocks == text_blocks(markdown_text)
      claims(q) == { i \in 1..Len(sections) :
                       /\ CountIn(sections[i], question_indicators[q]) >= 2
                       /\ AcceptedPatterns(sections[i]) # {} }
      answer(i) == CleanResponse(PatternGroup(sections[i],
                      answer_patterns[First(AcceptedPatterns(sections[i]))]))
      offers(q) == { j \in 1..Len(blocks) :
                       LET block == Strip(blocks[j])
                       IN  /\ TextLen(block) >= 20
                           /\ TextLen(block) > 30
                           /\ ~is_placeholder_text(block)
                           /\ CountIn(block, question_indicators[q]) >= 1
                           /\ TextHasAny(block, answer_indicators) }
      resolved == { question_keys[k] : k \in { n \in 1..Len(question_keys) :
                                                 claims(question_keys[n]) # {} } }
  IN  Returned =>
        \A k \in 1..Len(question_keys) :
          LET q == question_keys[k]
          IN  /\ claims(q) # {} =>
                   /\ q \in DOMAIN question_responses
                   /\ question_responses[q] = answer(First(claims(q)))
              /\ (claims(q) = {} /\ offers(q) # {}) =>
                   /\ Cardinality(resolved) < 3
                   /\ q \in DOMAIN question_responses
                   /\ question_responses[q] = Strip(blocks[First(offers(q))])
              /\ (claims(q) = {} /\ offers(q) = {}) => q \notin DOMAIN question_responses

(* two sections hold different answers to the data types question and the  *)
(* fallback pass has a block for it too: the response is the answer of the *)
(* first section                                                           *)
C21_Witness ==
  LET markdown_text == JoinCells(markdown_cells)
      sections == Sections(markdown_text)
      blocks == text_blocks(markdown_text)
      q == "data_types"
      claims == { i \in 1..Len(sections) :
                    /\ CountIn(sections[i], question_indicators[q]) >= 2
                    /\ AcceptedPatterns(sections[i]) # {} }
      answer(i) == CleanResponse(PatternGroup(sections[i],
                      answer_patterns[First(AcceptedPatterns(sections[i]))]))
  IN  /\ Returned
      /\ \E i, j \in claims : i < j /\ answer(i) # answer(j)
                                     /\ question_responses[q] = answer(i)
      /\ Cardinality(DOMAIN question_responses) < 3
      /\ \E j \in 1..Len(blocks) :
            /\ TextLen(Strip(blocks[j])) > 30
            /\ ~is_placeholder_text(Strip(blocks[j]))
            /\ CountIn(Strip(blocks[j]), question_indicators[q]) >= 1
            /\ TextHasAny(Strip(blocks[j]), answer_indicators)
            /\ Strip(blocks[j]) # question_responses[q]

(***************************************************************************)
(* Properties of _detect_code_errors.                                      *)
(***************************************************************************)

(* C22: a stderr stream that is the tidyverse conflicts notice never adds  *)
(* an entry to code_issues, whatever else its text contains, and the       *)
(* informational note is in detailed_feedback at most once per analysis,   *)
(* even if several outputs hold the notice; a returned result holds the    *)
(* note exactly when an output of a code cell is the notice.               *)
C22_ConflictNoticeIsNotAnIssue ==
  LET notices == { s \in DOMAIN Stderr : Stderr[s].conflicts }
      feedback == analysis.detailed_feedback
      notes == { i \in 1..Len(feedback) : feedback[i].label = "Tidyverse conflicts detected" }
      emitted == { x \in (1..Len(code_cells)) \X (1..2) :
                     /\ x[2] <= Len(code_cells[x[1]].outputs)
                     /\ code_cells[x[1]].outputs[x[2]] \in { StderrOut(s) : s \in notices } }
  IN  /\ \A i \in 1..Len(analysis.code_issues) : \A s \in notices :
           /\ analysis.code_issues[i] # "ERROR: " \o Stderr[s].stripped
           /\ analysis.code_issues[i] # Stderr[s].text
      /\ Cardinality(notes) <= 1
      /\ Returned => (Cardinality(notes) = 1 <=> emitted # {})

(* two cells each hold the notice twice, once with the line of an error    *)
(* after it: one note and no code issue                                    *)
C22_Witness ==
  /\ Returned
  /\ Len(code_cells) = 2
  /\ \A i \in 1..2 : code_cells[i].outputs = <<StderrOut("conf"), StderrOut("conf_obj")>>
  /\ analysis.code_issues = <<>>
  /\ Cardinality({ i \in 1..Len(analysis.detailed_feedback) :
                     analysis.detailed_feedback[i].label = "Tidyverse conflicts detected" }) = 1

(***************************************************************************)
(* Properties of _execute_notebook_safely.                                 *)
(***************************************************************************)

(* C23: when the external interpreter has been invoked, every required     *)
(* data file that exists in the project data directory has been copied     *)
(* into the notebook directory's data/ folder and into the notebook        *)
(* directory itself.                                                       *)
C23_DataFilesStagedBeforeExecution ==
  execution \in {"executed", "interrupted"} =>
    \A f \in required_files \cap files.project : f \in files.data /\ f \in files.root

(***************************************************************************)
(* Properties of the placeholder filters.                                  *)
(***************************************************************************)

(* C24: every response that reaches the scorer through analyze_notebook    *)
(* has passed the extractor's placeholder filter, which covers the         *)
(* scorer's; so no question of a returned result is labelled Incomplete,   *)
(* and a placeholder answer ends as Missing with score 0: when the section *)
(* of a question ends with the placeholder and the notebook holds nothing  *)
(* but titles, prompts, answer marks and placeholders, the question is     *)
(* Missing.                                                                *)
C24_PlaceholderAnswerIsMissing ==
  LET markdown_text == JoinCells(markdown_cells)
      sections == Sections(markdown_text)
      prompts == {"T1", "T2", "T3", "P1", "P1B", "P2", "P3", "ANS"}
      unanswered == \A i \in 1..Len(markdown_text) :
                       \/ markdown_text[i] \in Structural \cup prompts
                       \/ is_placeholder_text(<<markdown_text[i]>>)
      left_open(q) == \E i \in 1..Len(sections) :
                         /\ sections[i] # <<>>
                         /\ CountIn(sections[i], question_indicators[q]) >= 2
                         /\ is_placeholder_text(<<sections[i][Len(sections[i])]>>)
  IN  Returned =>
        \A k \in 1..Len(question_keys) :
          LET q == question_keys[k]
              entry == analysis.question_analysis[q]
          IN  /\ q \in DOMAIN question_responses =>
                   /\ ~is_placeholder_text(question_responses[q])
                   /\ ~has_placeholder(question_responses[q])
              /\ entry.quality # "Incomplete"
              /\ (unanswered /\ left_open(q)) =>
                   /\ entry.quality = "Missing"
                   /\ entry.score = 0

(***************************************************************************)
(* Properties of _analyze_package_loading.                                 *)
(***************************************************************************)

(* C25: for each package the score never decreases along found ->         *)
(* executed -> error-free: in a returned result, a package whose library() *)
(* cell was executed, even with an error output, scores no less than a     *)
(* package whose library() call is written but not executed, and an        *)
(* error-free executed load has the highest score, 2 points.               *)
C25_PackageScoreFollowsEvidence ==
  LET written == [found |-> TRUE, executed |-> FALSE, error |-> FALSE]
      statuses == { package_status(code_cells, "lib_tidyverse"),
                    package_status(code_cells, "lib_readxl") }
  IN  Returned =>
        /\ analysis.element_scores["package_loading"] =
             package_score(package_status(code_cells, "lib_tidyverse"))
             + package_score(package_status(code_cells, "lib_readxl"))
        /\ \A status \in statuses :
             /\ (status.found /\ status.executed) =>
                  package_score(status) >= package_score(written)
             /\ (status.found /\ status.executed /\ ~status.error) =>
                  package_score(status) = 2000
             /\ package_score(status) <= 2000

(***************************************************************************)
(* Properties of _analyze_working_directory.                               *)
(***************************************************************************)

(* C26: only the first code cell, in notebook order, whose source contains *)
(* getwd( is considered by the working-directory check: the score is 2     *)
(* when that cell has outputs and below 2 when it has none, whatever the   *)
(* outputs of the later cells that contain getwd(.                         *)
C26_LaterGetwdCellsDoNotCount ==
  LET holders == { i \in 1..Len(code_cells) : SourceHas(code_cells[i].source, "getwd(") }
      score == analysis.element_scores["working_directory"]
  IN  Returned =>
        \A i \in holders :
          (\A j \in holders : i <= j) =>
             /\ HasOutputs(code_cells[i]) => score = 2000
             /\ ~HasOutputs(code_cells[i]) => score \in {500, 1500}

(* the first cell with getwd( has no outputs, a later and different cell   *)
(* with getwd( has, and the score is below 2                               *)
C26_Witness ==
  LET holders == { i \in 1..Len(code_cells) : SourceHas(code_cells[i].source, "getwd(") }
  IN  /\ Returned
      /\ holders = {1, 2}
      /\ ~HasOutputs(code_cells[1])
      /\ HasOutputs(code_cells[2])
      /\ code_cells[2].source # code_cells[1].source
      /\ analysis.element_scores["working_directory"] < 2000

(***************************************************************************)
(* Properties of _add_detailed_breakdown.                                  *)
(***************************************************************************)

C28_EntryPointsHandTheSameResult ==
  DOMAIN handed # {} =>
    /\ handed.students.element_scores = handed.individual.element_scores
    /\ handed.students.code_issues = handed.individual.code_issues
    /\ handed.students.question_analysis = handed.individual.question_analysis
    /\ handed.students.overall_assessment = handed.individual.overall_assessment

(***************************************************************************)
(* Properties of parse_old_feedback_format on format_detailed_feedback.    *)
(***************************************************************************)

(* C29: for every result of analyze_notebook, the list made by             *)
(* format_detailed_feedback and read back by parse_old_feedback_format     *)
(* gives working_directory, package_loading, data_inspection and           *)
(* reflection_questions the score element_scores holds, to the one decimal *)
(* printed, whatever recommendations the overall assessment string holds.  *)
C29_ParsedScoresAreTheElementScores ==
  (Returned /\ DOMAIN handed # {}) =>
    \A key \in {"working_directory", "package_loading", "data_inspection",
                "reflection_questions"} :
      /\ key \in DOMAIN parsed.element_scores
      /\ parsed.element_scores[key] \in
           { OneDecimal(analysis.element_scores[key], half_up) : half_up \in BOOLEAN }

(***************************************************************************)
(* Properties of view_results_page.                                        *)
(***************************************************************************)

(* C30: over any sequence of render cycles and button presses, the         *)
(* submissions of an assignment are deleted only in a cycle where          *)
(* show_clear_confirm is set and "Yes, Delete All" is pressed, and then    *)
(* only those of the selected assignment; pressing "Clear Results" deletes *)
(* nothing; both "Yes, Delete All" and "Cancel" leave show_clear_confirm   *)
(* False.                                                                  *)
C30_DeleteOnlyWhenConfirmed ==
  [][ /\ (\E a \in Assignments : view'.submissions[a] < view.submissions[a]) =>
           /\ view.show_clear_confirm = "True"
           /\ view'.pressed = "Yes, Delete All"
           /\ \A a \in Assignments \ {view.selected} :
                 view'.submissions[a] = view.submissions[a]
      /\ view'.pressed = "Clear Results" =>
           /\ view'.submissions = view.submissions
           /\ view'.show_clear_confirm = "True"
      /\ view'.pressed \in {"Yes, Delete All", "Cancel"} =>
           view'.show_clear_confirm = "False"
    ]_vars

(* "Yes, Delete All" was pressed: the selected assignment has no           *)
(* submissions left, the other one has its own, and the flag is False      *)
C30_Witness ==
  /\ pc = "view"
  /\ view.pressed = "Yes, Delete All"
  /\ view.submissions[view.selected] = 0
  /\ \E a \in Assignments : view.submissions[a] = MaxSubmissions
  /\ view.show_clear_confirm = "False"
  /\ view.buttons = {}

====
